---- MODULE Spec2Model ----
(***************************************************************************)
(* A model of spotirice's playback UI (internal/ui/root/rootmodel.go):     *)
(* the RootModel reducer Update, the commands it emits, and the event      *)
(* loop that runs the commands and feeds their results back to Update;     *)
(* and of the startup program (main.go) that precedes it.                  *)
(*                                                                         *)
(* The state is RootModel's fields, plus                                   *)
(*   cmds      the work returned by the latest Update call (tea.Batch),    *)
(*   inflight  the bag of work emitted and not yet completed,              *)
(*   running   FALSE once tea.Quit has been returned,                      *)
(*   ran       for the executor's specification, the command run last with *)
(*             the replies it got, the calls it made and its message.      *)
(*                                                                         *)
(* A command is <<op, arg>>, a message is <<kind, body>>.  The Spotify     *)
(* Web API is the environment: every remote call may fail, and a reply is  *)
(* any value of a small set.                                               *)
(***************************************************************************)
EXTENDS Integers, Sequences, FiniteSets, Bags, TLC

(***************************************************************************)
(* Bounds of the model.                                                    *)
(***************************************************************************)
MaxPolls  == 1      \* refresh requests in flight at once
MaxClears == 1      \* status-clear timers in flight at once
MaxCmds   == 1      \* other commands (user actions) in flight at once
MaxQuery  == 1      \* characters typed into the search box
MaxExtra  == 2      \* tracks a search returns beyond the ten that are kept
MaxTimers == 2      \* status-clear timers in flight at once, in the status slice
MaxTicks  == 12     \* ticks counted after a control action, in the burst slice

(***************************************************************************)
(* Program constants.                                                      *)
(***************************************************************************)
BurstTicks     == 10     \* m.burstTicksRemaining = 10
TickMs         == 1000   \* tickCmd: time.Second
FastTickMs     == 100    \* fastTickCmd: 100*time.Millisecond
AdvanceMs      == 1000   \* m.progressMs += 1000
ClearStatusMs  == 5000   \* clearStatusCmd: 5*time.Second
VolumeStep     == 10     \* m.volume + 10, m.volume - 10
SeekStepMs     == 10000  \* m.progressMs +/- 10000
SeekBackoffMs  == 1000   \* m.durationMs - 1000
MaxResults     == 10     \* searchCmd keeps tracks[:10]
ControlRow     == 6      \* 1 + 1 + 2 + 1 + 1
ProgressRow    == 5      \* 1 + 1 + 2 + 1
BorderSize     == 2      \* RoundedBorder: one cell left, one right
DefaultWidth   == 80     \* w = 80 when m.width <= 0
BarReserve     == 19     \* w - 4 - 15
MinBarWidth    == 10     \* barWidth = 10 when below 10

(***************************************************************************)
(* Go arithmetic and strings.                                              *)
(***************************************************************************)
\* Go's integer division truncates toward zero.
GoDiv(a, b) == IF a >= 0 THEN a \div b ELSE -((-a) \div b)


Digit(d) ==
  CASE d = 0 -> "0" [] d = 1 -> "1" [] d = 2 -> "2" [] d = 3 -> "3"
    [] d = 4 -> "4" [] d = 5 -> "5" [] d = 6 -> "6" [] d = 7 -> "7"
    [] d = 8 -> "8" [] d = 9 -> "9"

\* fmt's %d of a non-negative int.
RECURSIVE Itoa(_)
Itoa(n) == IF n < 10 THEN Digit(n) ELSE Itoa(n \div 10) \o Digit(n % 10)

\* fmt's %d of any int.
FmtInt(n) == IF n < 0 THEN "-" \o Itoa(-n) ELSE Itoa(n)

\* fmt's %02d of a non-negative int.
Fmt02(n) == IF n < 10 THEN "0" \o Itoa(n) ELSE Itoa(n)

\* strings.HasPrefix
HasPrefix(s, p) == Len(s) >= Len(p) /\ SubSeq(s, 1, Len(p)) = p

formatTime(ms) ==
  LET t        == IF ms < 0 THEN 0 ELSE ms
      totalSec == t \div 1000
  IN  Itoa(totalSec \div 60) \o ":" \o Fmt02(totalSec % 60)

(***************************************************************************)
(* The remote service: what its calls can reply.                           *)
(***************************************************************************)
ApiError == "remote call failed"

\* Player states the service can report (PlayerState with an Item, plus
\* UserHasTracks and Device.Volume): a paused three-minute track, a playing
\* short track, a playing track shorter than one second, and a report whose
\* progress has run past the track's duration.
Paused  == [TrackName |-> "Song A", ArtistName |-> "X", ProgressMs |-> 1500,
            DurationMs |-> 180000, Playing |-> FALSE, ID |-> "t1",
            Liked |-> TRUE, Volume |-> 95]
Short   == [TrackName |-> "Song B", ArtistName |-> "Y", ProgressMs |-> 1000,
            DurationMs |-> 2500, Playing |-> TRUE, ID |-> "t2",
            Liked |-> FALSE, Volume |-> 5]
Jingle  == [TrackName |-> "Jingle", ArtistName |-> "", ProgressMs |-> 0,
            DurationMs |-> 500, Playing |-> TRUE, ID |-> "t3",
            Liked |-> FALSE, Volume |-> 5]
Overrun == [Short EXCEPT !.ProgressMs = 2600]

PlayerStates == {Paused, Short, Jingle, Overrun}

\* PlayerState replies: an error, no state, a state without an item, a track.
StateKinds == {"err", "nil", "noitem", "track"}

\* Devices the service can list.
Dev(id, type, active, restricted) ==
  [ID |-> id, Type |-> type, Active |-> active, Restricted |-> restricted]

DeviceLists ==
  { <<>>,
    <<Dev("d1", "Computer", FALSE, FALSE)>>,
    <<Dev("d1", "Computer", TRUE, FALSE)>>,
    <<Dev("d1", "TV", FALSE, FALSE), Dev("d2", "Speaker", FALSE, FALSE),
      Dev("d3", "Computer", FALSE, FALSE)>>,
    <<Dev("d1", "Smartphone", TRUE, TRUE), Dev("d2", "Speaker", FALSE, FALSE)>>,
    <<Dev("d1", "TV", TRUE, FALSE), Dev("d2", "Smartphone", FALSE, FALSE),
      Dev("d3", "Computer", TRUE, FALSE)>>,
    <<Dev("d1", "TV", FALSE, FALSE), Dev("d2", "Computer", FALSE, TRUE)>> }

\* Tracks a search can return: n tracks, in the service's relevance order,
\* which is ascending or descending in the track number.
SearchTrack(i) == [Name |-> "r" \o Itoa(i), URI |-> "uri" \o Itoa(i)]

SearchList(n, up) ==
  [i \in 1..n |-> IF up THEN SearchTrack(i) ELSE SearchTrack(n + 1 - i)]

SearchLists ==
  {SearchList(n, up) : n \in {0, 1, 2, MaxResults + MaxExtra}, up \in BOOLEAN}

(***************************************************************************)
(* Commands.  Each operator is the function a tea.Cmd runs: from the       *)
(* replies of the remote calls it makes, the calls it made, in order, and  *)
(* the one message it returns.                                             *)
(***************************************************************************)
Done(calls, msg) == [calls |-> calls, msg |-> msg]

statusMsg(s) == <<"statusMsg", s>>
errMsg(e)    == <<"errMsg", e>>
\* pollStateCmd reporting a failed refresh as an error.
pollStateCmdError(kind, state) ==
  IF kind # "track"
  THEN Done(<<<<"PlayerState", "">>>>, errMsg(ApiError))
  ELSE Done(<<<<"PlayerState", "">>, <<"UserHasTracks", state.ID>>>>,
            <<"playerStateMsg", state>>)

pollStateCmd(kind, state) ==
  IF kind # "track"
  THEN Done(<<<<"PlayerState", "">>>>, statusMsg("Waiting for playback..."))
  ELSE Done(<<<<"PlayerState", "">>, <<"UserHasTracks", state.ID>>>>,
            <<"playerStateMsg", state>>)

\* The loop of ensureActiveDevice over devices[i..]: <<firstValid, active>>,
\* each an index into devices or 0 for nil.
RECURSIVE ScanDevices(_, _, _)
ScanDevices(devices, i, firstValid) ==
  IF i > Len(devices) THEN <<firstValid, 0>>
  ELSE LET d == devices[i] IN
    IF d.Restricted THEN ScanDevices(devices, i + 1, firstValid)
    ELSE IF d.Type \notin {"Computer", "Smartphone", "Speaker"}
      THEN ScanDevices(devices, i + 1, firstValid)
    ELSE LET fv == IF firstValid = 0 THEN i ELSE firstValid IN
      IF d.Active THEN <<fv, i>> ELSE ScanDevices(devices, i + 1, fv)

\* ensureActiveDevice transferring although a valid device is active.
ensureActiveDeviceAlways(devicesOk, devices, transferOk) ==
  LET list == <<<<"PlayerDevices", "">>>> IN
  IF ~devicesOk THEN [calls |-> list, err |-> ApiError]
  ELSE IF Len(devices) = 0
    THEN [calls |-> list, err |-> "no devices found; open Spotify on a device"]
  ELSE LET scan == ScanDevices(devices, 1, 0) IN
    IF scan[1] # 0
    THEN [calls |-> Append(list, <<"TransferPlayback", devices[scan[1]].ID>>),
          err   |-> IF transferOk THEN "" ELSE ApiError]
    ELSE [calls |-> list, err |-> "no controllable devices available"]

\* ensureActiveDevice: the calls made and the error returned ("" for nil).
ensureActiveDevice(devicesOk, devices, transferOk) ==
  LET list == <<<<"PlayerDevices", "">>>> IN
  IF ~devicesOk THEN [calls |-> list, err |-> ApiError]
  ELSE IF Len(devices) = 0
    THEN [calls |-> list, err |-> "no devices found; open Spotify on a device"]
  ELSE LET scan == ScanDevices(devices, 1, 0) IN
    IF scan[2] # 0 THEN [calls |-> list, err |-> ""]
    ELSE IF scan[1] # 0
      THEN [calls |-> Append(list, <<"TransferPlayback", devices[scan[1]].ID>>),
            err   |-> IF transferOk THEN "" ELSE ApiError]
    ELSE [calls |-> list, err |-> "no controllable devices available"]
resumePlaybackCmd(devicesOk, devices, transferOk, stateKind, remotePlaying, playOk) ==
  LET e  == ensureActiveDevice(devicesOk, devices, transferOk)
      c1 == Append(e.calls, <<"PlayerState", "">>)
  IN  IF e.err # "" THEN Done(e.calls, errMsg(e.err))
      ELSE IF stateKind = "err" THEN Done(c1, errMsg(ApiError))
      ELSE IF stateKind # "nil" /\ ~remotePlaying
        THEN IF playOk
             THEN Done(Append(c1, <<"Play", "">>), statusMsg("Resumed playback."))
             ELSE Done(Append(c1, <<"Play", "">>), errMsg(ApiError))
      ELSE Done(c1, statusMsg("Resumed playback."))

\* simpleCmd reporting a failed call as a success.
simpleCmdSilent(call, text, ok) ==
  Done(<<<<call, "">>>>, statusMsg(text))

\* pauseCmd, nextCmd, prevCmd: one call, one status.
simpleCmd(call, text, ok) ==
  IF ok THEN Done(<<<<call, "">>>>, statusMsg(text))
  ELSE Done(<<<<call, "">>>>, errMsg(ApiError))

pauseCmd(ok) == simpleCmd("Pause", "Paused.", ok)
nextCmd(ok)  == simpleCmd("Next", "Skipped to next track.", ok)
prevCmd(ok)  == simpleCmd("Previous", "Went back to previous track.", ok)

\* toggleLikeCmd adding the track whether or not it is liked.
toggleLikeCmdAdd(trackID, currentlyLiked, ok) ==
  Done(<<<<"AddTracksToLibrary", trackID>>>>,
       IF ok THEN statusMsg("Added to Liked Songs.") ELSE errMsg(ApiError))

toggleLikeCmd(trackID, currentlyLiked, ok) ==
  IF currentlyLiked
  THEN Done(<<<<"RemoveTracksFromLibrary", trackID>>>>,
            IF ok THEN statusMsg("Removed from Liked Songs.") ELSE errMsg(ApiError))
  ELSE Done(<<<<"AddTracksToLibrary", trackID>>>>,
            IF ok THEN statusMsg("Added to Liked Songs.") ELSE errMsg(ApiError))

setVolumeCmd(vol, ok) ==
  Done(<<<<"Volume", FmtInt(vol)>>>>,
       IF ok THEN statusMsg("Volume: " \o FmtInt(vol) \o "%") ELSE errMsg(ApiError))

seekCmd(positionMs, ok, kind, state) ==
  LET seek == <<<<"Seek", FmtInt(positionMs)>>>> IN
  IF ~ok THEN Done(seek, errMsg(ApiError))
  ELSE LET p == pollStateCmd(kind, state) IN Done(seek \o p.calls, p.msg)
\* searchCmd keeping the last ten tracks instead of the first ten.
searchCmdLast(query, ok, hasTracks, tracks) ==
  LET call == <<<<"Search", query>>>> IN
  IF ~ok THEN Done(call, errMsg(ApiError))
  ELSE IF ~hasTracks \/ Len(tracks) = 0
    THEN Done(call, statusMsg("No results found"))
  ELSE Done(call, <<"searchResultsMsg",
                    IF Len(tracks) > MaxResults
                    THEN SubSeq(tracks, Len(tracks) - MaxResults + 1, Len(tracks))
                    ELSE tracks>>)

\* searchCmd reporting a failed search as a plain status.
searchCmdStatus(query, ok, hasTracks, tracks) ==
  LET call == <<<<"Search", query>>>> IN
  IF ~ok THEN Done(call, statusMsg(ApiError))
  ELSE IF ~hasTracks \/ Len(tracks) = 0
    THEN Done(call, statusMsg("No results found"))
  ELSE Done(call, <<"searchResultsMsg",
                    IF Len(tracks) > MaxResults
                    THEN SubSeq(tracks, 1, MaxResults) ELSE tracks>>)

searchCmd(query, ok, hasTracks, tracks) ==
  LET call == <<<<"Search", query>>>> IN
  IF ~ok THEN Done(call, errMsg(ApiError))
  ELSE IF ~hasTracks \/ Len(tracks) = 0
    THEN Done(call, statusMsg("No results found"))
  ELSE Done(call, <<"searchResultsMsg",
                    IF Len(tracks) > MaxResults
                    THEN SubSeq(tracks, 1, MaxResults) ELSE tracks>>)

playTrackCmd(uri, ok) ==
  Done(<<<<"PlayOpt", uri>>>>,
       IF ok THEN statusMsg("Playing selected track") ELSE errMsg(ApiError))

(***************************************************************************)
(* The reducer.  A RootModel is a record of the struct's fields (colors    *)
(* and version, which only View reads, are left out; client is TRUE for a  *)
(* non-nil *spotify.Client).  Every handler returns the pair Update        *)
(* returns: the next model and the batch of commands.                      *)
(***************************************************************************)
Ret(model, batch) == [m |-> model, cmd |-> batch]

Cmd(op, arg) == <<op, arg>>

tickCmd        == Cmd("tick", TickMs)
fastTickCmd    == Cmd("tick", FastTickMs)
clearStatusCmd == Cmd("clearStatus", ClearStatusMs)
pollCmd        == Cmd("poll", "")
blinkCmd       == Cmd("blink", "")
quitCmd        == Cmd("quit", "")
windowSizeCmd  == Cmd("windowSize", "")

\* NewRootModel: the model, and Init's batch.
NewRootModel(c) ==
  Ret([client |-> c,
       status |-> "Authenticated. Use p/space to play/pause, n/b to skip.",
       trackName |-> "", artistName |-> "", progressMs |-> 0, durationMs |-> 0,
       isPlaying |-> FALSE, hasInitialState |-> FALSE, currentTrackID |-> "",
       trackIsLiked |-> FALSE, volume |-> 0, showHelp |-> FALSE,
       burstTicksRemaining |-> 0, isSearching |-> FALSE, searchInput |-> "",
       searchResults |-> <<>>, searchCursor |-> 0, width |-> 0, height |-> 0],
      IF c THEN <<windowSizeCmd, pollCmd, tickCmd>> ELSE <<>>)

\* textinput.Model.Update on a key: a one-character key is typed at the end
\* of the value, backspace deletes the last character, other keys leave the
\* value alone.
textinputUpdate(value, k) ==
  IF Len(k) = 1 THEN value \o k
  ELSE IF k = "backspace" /\ Len(value) > 0 THEN SubSeq(value, 1, Len(value) - 1)
  ELSE value
\* enterSearch without the new, empty text input.
enterSearchKeepQuery(m) ==
  Ret([m EXCEPT !.isSearching = TRUE, !.searchResults = <<>>, !.searchCursor = 0],
      <<blinkCmd>>)

\* "Enter search mode": the / and s keys and the search button.
enterSearch(m) ==
  Ret([m EXCEPT !.isSearching = TRUE, !.searchInput = "",
                !.searchResults = <<>>, !.searchCursor = 0],
      <<blinkCmd>>)

\* playPause flipping the local playing flag at once.
playPauseOptimistic(m) ==
  LET b == [m EXCEPT !.burstTicksRemaining = BurstTicks, !.isPlaying = ~@] IN
  IF m.isPlaying THEN Ret(b, <<Cmd("pause", "")>>) ELSE Ret(b, <<Cmd("resume", "")>>)

\* playPause resuming whatever the playing flag is.
playPauseResume(m) ==
  Ret([m EXCEPT !.burstTicksRemaining = BurstTicks], <<Cmd("resume", "")>>)

\* Play/Pause: the p and space keys and the play button.
playPause(m) ==
  LET b == [m EXCEPT !.burstTicksRemaining = BurstTicks] IN
  IF m.isPlaying THEN Ret(b, <<Cmd("pause", "")>>) ELSE Ret(b, <<Cmd("resume", "")>>)

\* burst starting a fast tick timer of its own.
burstTicking(m, c) ==
  Ret([m EXCEPT !.burstTicksRemaining = BurstTicks], <<c, fastTickCmd>>)

\* burst without the assignment to burstTicksRemaining.
burstUnset(m, c) == Ret(m, <<c>>)

\* m.burstTicksRemaining = 10 and the return of one command.
burst(m, c) == Ret([m EXCEPT !.burstTicksRemaining = BurstTicks], <<c>>)

likeCmd(m) == Cmd("toggleLike", <<m.currentTrackID, m.trackIsLiked>>)

\* searchKey with a cursor that wraps around at either end.
searchKeyWrap(m, k) ==
  LET n == Len(m.searchResults) IN
  CASE k = "esc" ->
         Ret([m EXCEPT !.isSearching = FALSE, !.searchResults = <<>>,
                       !.searchCursor = 0], <<>>)
    [] k = "enter" ->
         IF n > 0 /\ m.searchCursor < n
         THEN Ret([m EXCEPT !.isSearching = FALSE, !.searchResults = <<>>,
                            !.searchCursor = 0],
                  <<Cmd("playTrack", m.searchResults[m.searchCursor + 1].URI)>>)
         ELSE IF m.searchInput # ""
           THEN Ret(m, <<Cmd("search", m.searchInput)>>)
         ELSE Ret(m, <<>>)
    [] k = "up" ->
         IF m.searchCursor > 0
         THEN Ret([m EXCEPT !.searchCursor = @ - 1], <<>>)
         ELSE Ret([m EXCEPT !.searchCursor = n - 1], <<>>)
    [] k = "down" ->
         IF m.searchCursor < n - 1
         THEN Ret([m EXCEPT !.searchCursor = @ + 1], <<>>)
         ELSE Ret([m EXCEPT !.searchCursor = 0], <<>>)
    [] OTHER ->
         Ret([m EXCEPT !.searchInput = textinputUpdate(@, k)], <<>>)

\* searchKey playing the first result wherever the cursor is.
searchKeyFirst(m, k) ==
  LET n == Len(m.searchResults) IN
  CASE k = "esc" ->
         Ret([m EXCEPT !.isSearching = FALSE, !.searchResults = <<>>,
                       !.searchCursor = 0], <<>>)
    [] k = "enter" ->
         IF n > 0 /\ m.searchCursor < n
         THEN Ret([m EXCEPT !.isSearching = FALSE, !.searchResults = <<>>,
                            !.searchCursor = 0],
                  <<Cmd("playTrack", m.searchResults[1].URI)>>)
         ELSE IF m.searchInput # ""
           THEN Ret(m, <<Cmd("search", m.searchInput)>>)
         ELSE Ret(m, <<>>)
    [] k = "up" ->
         IF m.searchCursor > 0
         THEN Ret([m EXCEPT !.searchCursor = @ - 1], <<>>) ELSE Ret(m, <<>>)
    [] k = "down" ->
         IF m.searchCursor < n - 1
         THEN Ret([m EXCEPT !.searchCursor = @ + 1], <<>>) ELSE Ret(m, <<>>)
    [] OTHER ->
         Ret([m EXCEPT !.searchInput = textinputUpdate(@, k)], <<>>)

\* case tea.KeyMsg while m.isSearching
searchKey(m, k) ==
  LET n == Len(m.searchResults) IN
  CASE k = "esc" ->
         Ret([m EXCEPT !.isSearching = FALSE, !.searchResults = <<>>,
                       !.searchCursor = 0], <<>>)
    [] k = "enter" ->
         IF n > 0 /\ m.searchCursor < n
         THEN Ret([m EXCEPT !.isSearching = FALSE, !.searchResults = <<>>,
                            !.searchCursor = 0],
                  <<Cmd("playTrack", m.searchResults[m.searchCursor + 1].URI)>>)
         ELSE IF m.searchInput # ""
           THEN Ret(m, <<Cmd("search", m.searchInput)>>)
         ELSE Ret(m, <<>>)
    [] k = "up" ->
         IF m.searchCursor > 0
         THEN Ret([m EXCEPT !.searchCursor = @ - 1], <<>>) ELSE Ret(m, <<>>)
    [] k = "down" ->
         IF m.searchCursor < n - 1
         THEN Ret([m EXCEPT !.searchCursor = @ + 1], <<>>) ELSE Ret(m, <<>>)
    [] OTHER ->
         Ret([m EXCEPT !.searchInput = textinputUpdate(@, k)], <<>>)
\* volumeUp without the cap at 100.
volumeUpUncapped(volume) == volume + VolumeStep

\* newVol of the + and = keys, and of the - and _ keys.
volumeUp(volume) ==
  LET newVol == volume + VolumeStep IN IF newVol > 100 THEN 100 ELSE newVol

volumeDown(volume) ==
  LET newVol == volume - VolumeStep IN IF newVol < 0 THEN 0 ELSE newVol

\* newPos of the left key, and of the right key.
seekBack(progressMs) ==
  LET newPos == progressMs - SeekStepMs IN IF newPos < 0 THEN 0 ELSE newPos

seekForward(progressMs, durationMs) ==
  LET newPos == progressMs + SeekStepMs IN
  IF newPos > durationMs THEN durationMs - SeekBackoffMs ELSE newPos

\* the switch on msg.String() outside search mode
normalKey(m, k) ==
  CASE k \in {"/", "s"} -> enterSearch(m)
    [] k = "?" -> Ret([m EXCEPT !.showHelp = ~@], <<>>)
    [] k \in {"p", " "} -> IF ~m.client THEN Ret(m, <<>>) ELSE playPause(m)
    [] k = "n" -> IF ~m.client THEN Ret(m, <<>>) ELSE burst(m, Cmd("next", ""))
    [] k = "b" -> IF ~m.client THEN Ret(m, <<>>) ELSE burst(m, Cmd("prev", ""))
    [] k = "l" ->
         IF m.currentTrackID # "" THEN burst(m, likeCmd(m)) ELSE Ret(m, <<>>)
    [] k \in {"+", "="} ->
         IF m.client THEN burst(m, Cmd("setVolume", volumeUp(m.volume)))
         ELSE Ret(m, <<>>)
    [] k \in {"-", "_"} ->
         IF m.client THEN burst(m, Cmd("setVolume", volumeDown(m.volume)))
         ELSE Ret(m, <<>>)
    [] k = "left" ->
         IF m.client /\ m.progressMs > 0
         THEN burst(m, Cmd("seek", seekBack(m.progressMs))) ELSE Ret(m, <<>>)
    [] k = "right" ->
         IF m.client /\ m.durationMs > 0
         THEN burst(m, Cmd("seek", seekForward(m.progressMs, m.durationMs)))
         ELSE Ret(m, <<>>)
    [] k \in {"q", "ctrl+c"} -> Ret(m, <<quitCmd>>)
    [] OTHER -> Ret(m, <<>>)

\* keyMsg letting the skip key through while the search is open.
keyMsgSkipInSearch(m, k) ==
  IF m.isSearching /\ k # "n" THEN searchKey(m, k)
  ELSE IF m.showHelp /\ k \in {"esc", "?"}
    THEN Ret([m EXCEPT !.showHelp = FALSE], <<>>)
  ELSE normalKey(m, k)

\* case tea.KeyMsg
keyMsg(m, k) ==
  IF m.isSearching THEN searchKey(m, k)
  ELSE IF m.showHelp /\ k \in {"esc", "?"}
    THEN Ret([m EXCEPT !.showHelp = FALSE], <<>>)
  ELSE normalKey(m, k)

(***************************************************************************)
(* Pointer events.  A tea.MouseMsg is [Button, Action, X, Y].              *)
(***************************************************************************)
Mouse(button, action, x, y) == [Button |-> button, Action |-> action, X |-> x, Y |-> y]

\* lipgloss.Width of the controls string
\*   " [ <magnifier> Search ]  [ P ]  [ <prev> ]  [ <next> ]  [ H ] ":
\* the magnifier is two cells wide, every other glyph one, whatever the play
\* icon and the heart are.
controlsWidth(isPlaying, trackIsLiked) ==
  LET icon == 1 IN 1 + 13 + 2 + (4 + icon) + 2 + 5 + 2 + 5 + 2 + (4 + icon) + 1

\* relativeX of a pointer event on the control row
relativeX(m, x) ==
  LET containerWidth == m.width - BorderSize
      padding == GoDiv(containerWidth - controlsWidth(m.isPlaying, m.trackIsLiked), 2)
  IN  x - padding
\* controlClick with the previous and next cases exchanged.
controlClickSwapped(m, relX) ==
  CASE relX >= 1 /\ relX <= 12  -> <<enterSearch(m)>>
    [] relX >= 15 /\ relX <= 19 -> <<playPause(m)>>
    [] relX >= 22 /\ relX <= 26 -> <<burst(m, Cmd("next", ""))>>
    [] relX >= 29 /\ relX <= 33 -> <<burst(m, Cmd("prev", ""))>>
    [] relX >= 36 /\ relX <= 40 ->
         IF m.currentTrackID # "" THEN <<burst(m, likeCmd(m))>> ELSE <<>>
    [] OTHER -> <<>>

\* the switch on relativeX; <<>> when no case returns
controlClick(m, relX) ==
  CASE relX >= 1 /\ relX <= 12  -> <<enterSearch(m)>>
    [] relX >= 15 /\ relX <= 19 -> <<playPause(m)>>
    [] relX >= 22 /\ relX <= 26 -> <<burst(m, Cmd("prev", ""))>>
    [] relX >= 29 /\ relX <= 33 -> <<burst(m, Cmd("next", ""))>>
    [] relX >= 36 /\ relX <= 40 ->
         IF m.currentTrackID # "" THEN <<burst(m, likeCmd(m))>> ELSE <<>>
    [] OTHER -> <<>>

\* barWidth without the default for a terminal whose width is not known.
barWidthNoDefault(width) ==
  LET bw == width - BarReserve
  IN  IF bw < MinBarWidth THEN MinBarWidth ELSE bw

\* barWidth of the progress-bar click
barWidth(width) ==
  LET w  == IF width <= 0 THEN DefaultWidth ELSE width
      bw == w - BarReserve
  IN  IF bw < MinBarWidth THEN MinBarWidth ELSE bw

\* barWidth of renderProgressLine, the bar as it is drawn
renderBarWidth(width) ==
  LET w  == IF width <= 0 THEN 80 ELSE width
      bw == w - 4 - 15
  IN  IF bw < 10 THEN 10 ELSE bw

\* barStartX of the progress-bar click
barStartX(m) ==
  LET timerWidth == Len(formatTime(m.progressMs)) + 1 + Len(formatTime(m.durationMs)) + 1
      containerWidth == m.width - BorderSize
      progressLineWidth == timerWidth + barWidth(m.width)
      padding == GoDiv(containerWidth - progressLineWidth, 2)
  IN  padding + timerWidth - 2

\* The clicks on which float64(pos)/float64(bw)*float64(duration) is just below
\* the integer pos*duration/bw, so that int() yields one less: 0.7*180000 is
\* 125999.99999999999 in IEEE 754 double arithmetic.  Among the bar widths and
\* durations of this model there is no other.
RoundsDown == {<<7, 10, 180000>>}

\* seekPos := int(ratio * float64(m.durationMs)), with ratio clamped to [0, 1]
seekPos(barClickPos, bw, durationMs) ==
  LET pos   == IF barClickPos < 0 THEN 0 ELSE IF barClickPos > bw THEN bw ELSE barClickPos
      exact == (pos * durationMs) \div bw
  IN  IF <<pos, bw, durationMs>> \in RoundsDown THEN exact - 1 ELSE exact

\* "Handle progress bar clicks"; <<>> when the click is not on the bar
progressClick(m, ev) ==
  IF ev.Y = ProgressRow /\ m.client /\ m.durationMs > 0
  THEN LET bw == barWidth(m.width)
           barClickPos == ev.X - barStartX(m)
       IN  IF barClickPos >= 0 /\ barClickPos < bw
           THEN <<burst(m, Cmd("seek", seekPos(barClickPos, bw, m.durationMs)))>>
           ELSE <<>>
  ELSE <<>>

\* mouseMsg acting on presses and motions as on releases.
mouseMsgAnyAction(m, ev) ==
  LET n == Len(m.searchResults) IN
  IF m.isSearching /\ n > 0 /\ ev.Button = "wheelUp"
  THEN IF m.searchCursor > 0
       THEN Ret([m EXCEPT !.searchCursor = @ - 1], <<>>) ELSE Ret(m, <<>>)
  ELSE IF m.isSearching /\ n > 0 /\ ev.Button = "wheelDown"
  THEN IF m.searchCursor < n - 1
       THEN Ret([m EXCEPT !.searchCursor = @ + 1], <<>>) ELSE Ret(m, <<>>)
  ELSE LET control == IF ev.Y = ControlRow /\ m.client
                      THEN controlClick(m, relativeX(m, ev.X)) ELSE <<>>
           progress == progressClick(m, ev)
       IN  IF control # <<>> THEN control[1]
           ELSE IF progress # <<>> THEN progress[1]
           ELSE Ret(m, <<>>)

\* mouseMsg with a cursor that wraps around at either end.
mouseMsgWrap(m, ev) ==
  LET n == Len(m.searchResults) IN
  IF m.isSearching /\ n > 0 /\ ev.Button = "wheelUp"
  THEN Ret([m EXCEPT !.searchCursor = IF @ > 0 THEN @ - 1 ELSE n - 1], <<>>)
  ELSE IF m.isSearching /\ n > 0 /\ ev.Button = "wheelDown"
  THEN Ret([m EXCEPT !.searchCursor = IF @ < n - 1 THEN @ + 1 ELSE 0], <<>>)
  ELSE IF ev.Action # "release" THEN Ret(m, <<>>)
  ELSE LET control == IF ev.Y = ControlRow /\ m.client
                      THEN controlClick(m, relativeX(m, ev.X)) ELSE <<>>
           progress == progressClick(m, ev)
       IN  IF control # <<>> THEN control[1]
           ELSE IF progress # <<>> THEN progress[1]
           ELSE Ret(m, <<>>)

\* case tea.MouseMsg
mouseMsg(m, ev) ==
  LET n == Len(m.searchResults) IN
  IF m.isSearching /\ n > 0 /\ ev.Button = "wheelUp"
  THEN IF m.searchCursor > 0
       THEN Ret([m EXCEPT !.searchCursor = @ - 1], <<>>) ELSE Ret(m, <<>>)
  ELSE IF m.isSearching /\ n > 0 /\ ev.Button = "wheelDown"
  THEN IF m.searchCursor < n - 1
       THEN Ret([m EXCEPT !.searchCursor = @ + 1], <<>>) ELSE Ret(m, <<>>)
  ELSE IF ev.Action # "release" THEN Ret(m, <<>>)
  ELSE LET control == IF ev.Y = ControlRow /\ m.client
                      THEN controlClick(m, relativeX(m, ev.X)) ELSE <<>>
           progress == progressClick(m, ev)
       IN  IF control # <<>> THEN control[1]
           ELSE IF progress # <<>> THEN progress[1]
           ELSE Ret(m, <<>>)

(***************************************************************************)
(* Timer and result events.                                                *)
(***************************************************************************)
\* tickMsg without the test of burstTicksRemaining > 0.
tickMsgUnguarded(m) ==
  Ret([m EXCEPT !.burstTicksRemaining = @ - 1], <<pollCmd, fastTickCmd>>)

\* tickMsg counting the burst down two at a time.
tickMsgTwice(m) ==
  IF m.burstTicksRemaining > 0
  THEN Ret([m EXCEPT !.burstTicksRemaining = IF @ > 1 THEN @ - 2 ELSE 0],
           <<pollCmd, fastTickCmd>>)
  ELSE IF m.client /\ m.isPlaying /\ m.hasInitialState
    THEN LET advanced == m.progressMs + AdvanceMs IN
         Ret([m EXCEPT !.progressMs =
                         IF advanced > m.durationMs THEN m.durationMs ELSE advanced],
             <<pollCmd, tickCmd>>)
  ELSE Ret(m, <<pollCmd, tickCmd>>)

\* tickMsg scheduling the normal tick in burst mode too.
tickMsgSlow(m) ==
  IF m.burstTicksRemaining > 0
  THEN Ret([m EXCEPT !.burstTicksRemaining = @ - 1], <<pollCmd, tickCmd>>)
  ELSE IF m.client /\ m.isPlaying /\ m.hasInitialState
    THEN LET advanced == m.progressMs + AdvanceMs IN
         Ret([m EXCEPT !.progressMs =
                         IF advanced > m.durationMs THEN m.durationMs ELSE advanced],
             <<pollCmd, tickCmd>>)
  ELSE Ret(m, <<pollCmd, tickCmd>>)

\* tickMsg without the clamp of progressMs to durationMs.
tickMsgUnclamped(m) ==
  IF m.burstTicksRemaining > 0
  THEN Ret([m EXCEPT !.burstTicksRemaining = @ - 1], <<pollCmd, fastTickCmd>>)
  ELSE IF m.client /\ m.isPlaying /\ m.hasInitialState
    THEN Ret([m EXCEPT !.progressMs = @ + AdvanceMs], <<pollCmd, tickCmd>>)
  ELSE Ret(m, <<pollCmd, tickCmd>>)

\* tickMsg without the refresh request in burst mode.
tickMsgNoPoll(m) ==
  IF m.burstTicksRemaining > 0
  THEN Ret([m EXCEPT !.burstTicksRemaining = @ - 1], <<fastTickCmd>>)
  ELSE IF m.client /\ m.isPlaying /\ m.hasInitialState
    THEN LET advanced == m.progressMs + AdvanceMs IN
         Ret([m EXCEPT !.progressMs =
                         IF advanced > m.durationMs THEN m.durationMs ELSE advanced],
             <<pollCmd, tickCmd>>)
  ELSE Ret(m, <<pollCmd, tickCmd>>)

\* case tickMsg
tickMsg(m) ==
  IF m.burstTicksRemaining > 0
  THEN Ret([m EXCEPT !.burstTicksRemaining = @ - 1], <<pollCmd, fastTickCmd>>)
  ELSE IF m.client /\ m.isPlaying /\ m.hasInitialState
    THEN LET advanced == m.progressMs + AdvanceMs IN
         Ret([m EXCEPT !.progressMs =
                         IF advanced > m.durationMs THEN m.durationMs ELSE advanced],
             <<pollCmd, tickCmd>>)
  ELSE Ret(m, <<pollCmd, tickCmd>>)

\* playerStateMsg keeping the local volume.
playerStateMsgKeepVolume(m, msg) ==
  Ret([m EXCEPT !.hasInitialState = TRUE, !.trackName = msg.TrackName,
                !.artistName = msg.ArtistName, !.progressMs = msg.ProgressMs,
                !.durationMs = msg.DurationMs, !.isPlaying = msg.Playing,
                !.currentTrackID = msg.ID, !.trackIsLiked = msg.Liked],
      <<>>)

\* case playerStateMsg
playerStateMsg(m, msg) ==
  Ret([m EXCEPT !.hasInitialState = TRUE, !.trackName = msg.TrackName,
                !.artistName = msg.ArtistName, !.progressMs = msg.ProgressMs,
                !.durationMs = msg.DurationMs, !.isPlaying = msg.Playing,
                !.currentTrackID = msg.ID, !.trackIsLiked = msg.Liked,
                !.volume = msg.Volume],
      <<>>)

\* Update with a default case that clears the status.
UpdateClearing(m, msg) ==
  LET kind == msg[1]
      body == msg[2]
  IN  CASE kind = "WindowSizeMsg" ->
             Ret([m EXCEPT !.width = body[1], !.height = body[2]], <<>>)
        [] kind = "KeyMsg" -> keyMsg(m, body)
        [] kind = "MouseMsg" -> mouseMsg(m, body)
        [] kind = "tickMsg" -> tickMsg(m)
        [] kind = "playerStateMsg" -> playerStateMsg(m, body)
        [] kind = "statusMsg" -> Ret([m EXCEPT !.status = body], <<clearStatusCmd>>)
        [] kind = "clearStatusMsg" -> Ret([m EXCEPT !.status = ""], <<>>)
        [] kind = "errMsg" ->
             Ret([m EXCEPT !.status = "Error: " \o body], <<clearStatusCmd>>)
        [] kind = "searchResultsMsg" ->
             Ret([m EXCEPT !.searchResults = body, !.searchCursor = 0], <<>>)
        [] OTHER -> Ret([m EXCEPT !.status = ""], <<>>)

\* Update showing an error without scheduling the clearing of the status.
UpdateErrUncleared(m, msg) ==
  LET kind == msg[1]
      body == msg[2]
  IN  CASE kind = "WindowSizeMsg" ->
             Ret([m EXCEPT !.width = body[1], !.height = body[2]], <<>>)
        [] kind = "KeyMsg" -> keyMsg(m, body)
        [] kind = "MouseMsg" -> mouseMsg(m, body)
        [] kind = "tickMsg" -> tickMsg(m)
        [] kind = "playerStateMsg" -> playerStateMsg(m, body)
        [] kind = "statusMsg" -> Ret([m EXCEPT !.status = body], <<clearStatusCmd>>)
        [] kind = "clearStatusMsg" -> Ret([m EXCEPT !.status = ""], <<>>)
        [] kind = "errMsg" -> Ret([m EXCEPT !.status = "Error: " \o body], <<>>)
        [] kind = "searchResultsMsg" ->
             Ret([m EXCEPT !.searchResults = body, !.searchCursor = 0], <<>>)
        [] OTHER -> Ret(m, <<>>)

\* func (m RootModel) Update(msg tea.Msg) (tea.Model, tea.Cmd)
Update(m, msg) ==
  LET kind == msg[1]
      body == msg[2]
  IN  CASE kind = "WindowSizeMsg" ->
             Ret([m EXCEPT !.width = body[1], !.height = body[2]], <<>>)
        [] kind = "KeyMsg" -> keyMsg(m, body)
        [] kind = "MouseMsg" -> mouseMsg(m, body)
        [] kind = "tickMsg" -> tickMsg(m)
        [] kind = "playerStateMsg" -> playerStateMsg(m, body)
        [] kind = "statusMsg" -> Ret([m EXCEPT !.status = body], <<clearStatusCmd>>)
        [] kind = "clearStatusMsg" -> Ret([m EXCEPT !.status = ""], <<>>)
        [] kind = "errMsg" ->
             Ret([m EXCEPT !.status = "Error: " \o body], <<clearStatusCmd>>)
        [] kind = "searchResultsMsg" ->
             Ret([m EXCEPT !.searchResults = body, !.searchCursor = 0], <<>>)
        [] OTHER -> Ret(m, <<>>)

(***************************************************************************)
(* The event loop.                                                         *)
(***************************************************************************)
VARIABLES
  m,         \* the RootModel
  cmds,      \* the batch returned by the latest Update call
  inflight,  \* bag of commands emitted and not yet completed
  running,   \* FALSE once tea.Quit was returned
  ran        \* the command run last, as SpecExec records it

vars == <<m, cmds, inflight, running, ran>>

\* Terminal sizes a tea.WindowSizeMsg reports, <<width, height>>: the size
\* main asks the terminal for, and a narrow one.
Requested == {<<90, 11>>}
Sizes     == Requested \cup {<<24, 11>>}

\* Keys the user presses (msg.String()).
TransportKeys == {"p", " ", "n", "b"}
LikeKeys      == {"l"}
VolumeKeys    == {"+", "=", "-", "_"}
SeekKeys      == {"left", "right"}
SearchKeys    == {"/", "s", "esc", "enter", "up", "down", "backspace", "a"}

\* Pointer events a terminal reports, on the columns 0..MaxX of the rows
\* around the control bar; a wheel event is a press.
MaxX == 89
Rows == {ProgressRow - 1, ProgressRow, ControlRow, ControlRow + 1}

Releases(rows) == {Mouse("left", "release", x, y) : x \in 0..MaxX, y \in rows}

Presses == {Mouse("left", a, x, ControlRow) : a \in {"press", "motion"},
                                               x \in {0, MaxX \div 2}}

Wheels == {Mouse(b, "press", 0, ControlRow) : b \in {"wheelUp", "wheelDown"}}

\* A release on the search button of a terminal 90 columns wide.
SearchButton == Mouse("left", "release", 30, ControlRow)

\* The bag of a batch.
BatchBag(batch) ==
  [c \in {batch[i] : i \in DOMAIN batch} |->
     Cardinality({i \in DOMAIN batch : batch[i] = c})]

CountOps(bag, ops) ==
  BagCardinality([c \in {x \in DOMAIN bag : x[1] \in ops} |-> bag[c]])

\* The model's bounds on the work in flight.
Fits(bag) ==
  /\ CountOps(bag, {"poll"}) <= MaxPolls
  /\ CountOps(bag, {"clearStatus"}) <= MaxClears
  /\ CountOps(bag, {"pause", "resume", "next", "prev", "toggleLike", "setVolume",
                    "seek", "search", "playTrack", "blink"}) <= MaxCmds

\* Running a command: the replies it can get, each with what it then
\* delivers, as <<replies, Done(calls, msg)>>.
In(replies, out) == <<replies, out>>

PollRuns ==
  {In(<<k>>, pollStateCmd(k, Paused)) : k \in StateKinds \ {"track"}}
    \cup {In(<<"track", s>>, pollStateCmd("track", s)) : s \in PlayerStates}

ResumeRuns ==
  {In(<<dok, ds, tok, k, rp, pok>>, resumePlaybackCmd(dok, ds, tok, k, rp, pok)) :
     dok \in BOOLEAN, ds \in DeviceLists, tok \in BOOLEAN,
     k \in StateKinds \ {"noitem"}, rp \in BOOLEAN, pok \in BOOLEAN}

Runs(c) ==
  LET op == c[1]  arg == c[2] IN
  CASE op = "poll" -> PollRuns
    [] op = "tick" -> {In(<<>>, Done(<<>>, <<"tickMsg", "">>))}
    [] op = "clearStatus" -> {In(<<>>, Done(<<>>, <<"clearStatusMsg", "">>))}
    [] op = "blink" -> {In(<<>>, Done(<<>>, <<"blinkMsg", "">>))}
    [] op = "windowSize" ->
         {In(<<d>>, Done(<<>>, <<"WindowSizeMsg", d>>)) : d \in Sizes}
    [] op = "pause" -> {In(<<ok>>, pauseCmd(ok)) : ok \in BOOLEAN}
    [] op = "resume" -> ResumeRuns
    [] op = "next" -> {In(<<ok>>, nextCmd(ok)) : ok \in BOOLEAN}
    [] op = "prev" -> {In(<<ok>>, prevCmd(ok)) : ok \in BOOLEAN}
    [] op = "toggleLike" ->
         {In(<<ok>>, toggleLikeCmd(arg[1], arg[2], ok)) : ok \in BOOLEAN}
    [] op = "setVolume" -> {In(<<ok>>, setVolumeCmd(arg, ok)) : ok \in BOOLEAN}
    [] op = "seek" ->
         {In(<<FALSE>>, seekCmd(arg, FALSE, "nil", Paused))}
           \cup {In(<<TRUE, k>>, seekCmd(arg, TRUE, k, Paused)) :
                   k \in StateKinds \ {"track"}}
           \cup {In(<<TRUE, "track", s>>, seekCmd(arg, TRUE, "track", s)) :
                   s \in PlayerStates}
    [] op = "search" ->
         {In(<<FALSE>>, searchCmd(arg, FALSE, FALSE, <<>>)),
          In(<<TRUE, FALSE>>, searchCmd(arg, TRUE, FALSE, <<>>))}
           \cup {In(<<TRUE, TRUE, t>>, searchCmd(arg, TRUE, TRUE, t)) : t \in SearchLists}
    [] op = "playTrack" -> {In(<<ok>>, playTrackCmd(arg, ok)) : ok \in BOOLEAN}

\* The messages a command can deliver.
PollMsgs   == {r[2].msg : r \in PollRuns}
ResumeMsgs == {r[2].msg : r \in ResumeRuns}

Msgs(c) ==
  CASE c[1] = "poll" -> PollMsgs
    [] c[1] = "resume" -> ResumeMsgs
    [] OTHER -> {r[2].msg : r \in Runs(c)}

NoRun == [cmd |-> Cmd("", ""), replies |-> <<>>, calls |-> <<>>, msg |-> <<"", "">>]

\* One pass of the loop: Update handles msg, the command done (a bag) leaves
\* the work in flight and the batch Update returns joins it.  tea.Quit ends
\* the program.
Loop(msg, done, record) ==
  LET r == Update(m, msg) IN
  /\ running
  /\ m' = r.m
  /\ cmds' = r.cmd
  /\ inflight' = (inflight (-) done) (+) BatchBag(SelectSeq(r.cmd, LAMBDA c : c # quitCmd))
  /\ running' = (quitCmd \notin {r.cmd[i] : i \in DOMAIN r.cmd})
  /\ ran' = record

\* A pass that keeps the work in flight within the model's bounds.
Step(msg, done, record) ==
  /\ Loop(msg, done, record)
  /\ Fits(inflight')

Init ==
  LET r == NewRootModel(TRUE) IN
  /\ m = r.m
  /\ cmds = r.cmd
  /\ inflight = BatchBag(r.cmd)
  /\ running = TRUE
  /\ ran = NoRun

\* The user resizes the terminal.
Resize == \E d \in Sizes : Step(<<"WindowSizeMsg", d>>, EmptyBag, NoRun)

\* The user presses a key (at most MaxQuery characters are typed in a search).
KeyPress(k) ==
  /\ (m.isSearching /\ Len(k) = 1) => Len(m.searchInput) < MaxQuery
  /\ Step(<<"KeyMsg", k>>, EmptyBag, NoRun)

\* The user moves, presses, releases or scrolls the pointer.
Pointer(ev) == Step(<<"MouseMsg", ev>>, EmptyBag, NoRun)

\* A command in flight completes and its message reaches Update.
Complete(c) ==
  /\ BagIn(c, inflight)
  /\ \E msg \in Msgs(c) : Step(msg, SetToBag({c}), NoRun)

\* The same, with the run recorded.
Run(c) ==
  /\ BagIn(c, inflight)
  /\ \E r \in Runs(c) :
       Step(r[2].msg, SetToBag({c}),
            [cmd |-> c, replies |-> r[1], calls |-> r[2].calls, msg |-> r[2].msg])

Tick        == Complete(tickCmd) \/ Complete(fastTickCmd)
Refresh     == Complete(pollCmd)
StatusClear == Complete(clearStatusCmd)
WindowSize  == Complete(windowSizeCmd)
ResizeDone ==
  /\ BagIn(windowSizeCmd, inflight)
  /\ \E d \in Requested : Step(<<"WindowSizeMsg", d>>, SetToBag({windowSizeCmd}), NoRun)
Result ==
  \E c \in BagToSet(inflight) :
    /\ c[1] \notin {"poll", "tick", "clearStatus", "windowSize"}
    /\ Complete(c)

\* The playback loop's own events.  The window-size report stays pending in
\* the playback slices: only the pointer cases and View read the width.
Background == Tick \/ Refresh \/ StatusClear \/ Result

\* The playback loop under the transport keys.
Next ==
  \/ Background
  \/ \E k \in TransportKeys : KeyPress(k)

Spec == Init /\ [][Next]_vars

\* The playback loop under the volume keys.
NextVolume ==
  \/ Background
  \/ \E k \in VolumeKeys : KeyPress(k)

SpecVolume == Init /\ [][NextVolume]_vars

\* The playback loop under the seek keys.
NextSeek ==
  \/ Background
  \/ \E k \in SeekKeys : KeyPress(k)

SpecSeek == Init /\ [][NextSeek]_vars

\* The control row: resizes and pointer events on it, before the first tick
\* and the first refresh complete.
NextPointer ==
  \/ StatusClear
  \/ WindowSize
  \/ Result
  \/ Resize
  \/ \E ev \in Releases({ControlRow}) \cup Presses : Pointer(ev)

SpecPointer == Init /\ [][NextPointer]_vars

\* Entering and leaving the search: the keys that open, fill, submit and
\* cancel it and move its cursor, and the search button, in a terminal of the
\* size requested (no tick and no refresh completes meanwhile).
EntryKeys == {"/", "s", "esc", "enter", "a", "down"}

NextSearch ==
  \/ StatusClear
  \/ ResizeDone
  \/ Result
  \/ \E k \in EntryKeys : KeyPress(k)
  \/ Pointer(SearchButton)

SpecSearch == Init /\ [][NextSearch]_vars

\* The search results: the searches the keys submit, every run recorded.
NextResults ==
  \/ StatusClear
  \/ \E k \in {"/", "esc", "enter", "a"} : KeyPress(k)
  \/ \E c \in BagToSet(inflight) : c[1] \in {"blink", "search", "playTrack"} /\ Run(c)

SpecResults == Init /\ [][NextResults]_vars

\* The executor: the loop before its first tick under the play/pause keys,
\* every run recorded.
NextExec ==
  \/ \E k \in {"p", " "} : KeyPress(k)
  \/ \E c \in BagToSet(inflight) : c # tickCmd /\ Run(c)

SpecExec == Init /\ [][NextExec]_vars

\* The modes: the keys that open and close the help and the search and
\* that quit, and the search button, in a terminal of the size requested,
\* before the first tick.
ModeKeys == {"?", "/", "esc", "q", "ctrl+c"}

NextModes ==
  \/ ResizeDone
  \/ Refresh
  \/ StatusClear
  \/ Result
  \/ \E k \in ModeKeys : KeyPress(k)
  \/ Pointer(SearchButton)

SpecModes == Init /\ [][NextModes]_vars

\* The search cursor: the keys that open, fill (a "/" typed in the search is
\* a character of the query), submit and cancel the search
\* and move its cursor, the wheel, and the results of the searches in
\* flight, in any order; a search can be submitted before the results of the
\* one before it have arrived.  Enter is pressed to submit a search, not to
\* play a result.  An event that moves the cursor is recorded.
MaxSearches == 2

Moves == {<<"KeyMsg", k>> : k \in {"up", "down"}} \cup {<<"MouseMsg", ev>> : ev \in Wheels}

Handle(msg, done) ==
  /\ Loop(msg, done, IF msg \in Moves THEN [NoRun EXCEPT !.msg = msg] ELSE NoRun)
  /\ CountOps(inflight', {"search"}) <= MaxSearches
  /\ CountOps(inflight', {"blink"}) <= MaxCmds
  /\ CountOps(inflight', {"clearStatus"}) <= MaxClears

Scroll(msg) ==
  /\ (m.isSearching /\ msg = <<"KeyMsg", "/">>) => Len(m.searchInput) < MaxQuery
  /\ msg = <<"KeyMsg", "enter">> => m.searchResults = <<>>
  /\ Handle(msg, EmptyBag)

Arrive(c) ==
  /\ BagIn(c, inflight)
  /\ c[1] \in {"search", "blink", "clearStatus"}
  /\ \E msg \in Msgs(c) : Handle(msg, SetToBag({c}))

NextCursor ==
  \/ \E msg \in {<<"KeyMsg", k>> : k \in {"/", "esc", "enter"}} \cup Moves : Scroll(msg)
  \/ \E c \in BagToSet(inflight) : Arrive(c)

SpecCursor == Init /\ [][NextCursor]_vars

\* The reducer as a function: one call of Update, on any event, in a model
\* the loop can have built.  A model is built by a history of events: a
\* playback state received or none, a control key and the ticks after it
\* (every value of burstTicksRemaining), a terminal size reported or none, the
\* help opened or not, the search opened or not, with a query or without,
\* with results or without, the cursor on the first result or on the last.
RECURSIVE After(_, _)
After(model, msgs) ==
  IF msgs = <<>> THEN model ELSE After(Update(model, Head(msgs)).m, Tail(msgs))

Key(k) == <<"KeyMsg", k>>

Histories ==
  LET plays    == {<<>>} \cup {<<msg>> : msg \in {x \in PollMsgs : x[1] = "playerStateMsg"}}
      bursts   == {<<>>} \cup {<<Key("n")>> \o [i \in 1..j |-> <<"tickMsg", "">>] :
                                 j \in 0..(BurstTicks - 1)}
      resizes  == {<<>>} \cup {<<<<"WindowSizeMsg", d>>>> : d \in Sizes}
      helps    == {<<>>, <<Key("?")>>}
      found    == <<"searchResultsMsg", SearchList(2, TRUE)>>
      searches == {<<>>, <<Key("/")>>, <<Key("/"), Key("a")>>,
                   <<Key("/"), Key("a"), found>>,
                   <<Key("/"), Key("a"), found, Key("down")>>}
  IN  {p \o b \o w \o h \o s :
         p \in plays, b \in bursts, w \in resizes, h \in helps, s \in searches}

Models == {After(NewRootModel(TRUE).m, h) : h \in Histories}

\* The events Update can be called on; a blinkMsg is an event it has no case for.
Keys == TransportKeys \cup LikeKeys \cup VolumeKeys \cup SeekKeys \cup SearchKeys \cup ModeKeys

Events ==
  {<<"WindowSizeMsg", d>> : d \in Sizes}
    \cup {Key(k) : k \in Keys}
    \cup {<<"MouseMsg", ev>> : ev \in Releases({ProgressRow, ControlRow}) \cup Presses \cup Wheels}
    \cup {<<"MouseMsg", Mouse("left", a, x, y)>> :
            a \in {"press", "motion", "release"}, x \in {20, 39}, y \in Rows}
    \cup {<<"tickMsg", "">>, <<"clearStatusMsg", "">>, <<"blinkMsg", "">>}
    \cup PollMsgs \cup ResumeMsgs \cup Msgs(Cmd("search", "a"))

InitReducer ==
  /\ m \in Models
  /\ cmds = <<>>
  /\ inflight = EmptyBag
  /\ running = TRUE
  /\ ran = NoRun

\* Update is called on msg, once, and the call is recorded.
Deliver(msg) ==
  /\ ran = NoRun
  /\ Loop(msg, EmptyBag, [NoRun EXCEPT !.msg = msg])

NextReducer == \E msg \in Events : Deliver(msg)

SpecReducer == InitReducer /\ [][NextReducer]_vars

\* The commands of the user's actions: in a model with or without a track,
\* or with search results open, in a terminal of the size requested, one
\* control key is pressed or the play button clicked, and the command
\* emitted is run, the run recorded.
CallModels ==
  {x \in Models : /\ x.burstTicksRemaining = 0 /\ x.width = 90 /\ ~x.showHelp
                  /\ x.trackName \in {"", Paused.TrackName, Short.TrackName}
                  /\ x.isSearching => x.searchResults = SearchList(2, TRUE)}

InitCalls ==
  /\ m \in CallModels
  /\ cmds = <<>>
  /\ inflight = EmptyBag
  /\ running = TRUE
  /\ ran = NoRun

CallKeys == {"p", "n", "b", "l", "+", "left", "enter"}

Press(k) ==
  /\ inflight = EmptyBag
  /\ ran = NoRun
  /\ KeyPress(k)

\* A release on the play button of a terminal 90 columns wide.
PlayButton == Mouse("left", "release", 39, ControlRow)

Click(ev) ==
  /\ inflight = EmptyBag
  /\ ran = NoRun
  /\ Pointer(ev)

RunOnce(c) ==
  /\ ran = NoRun
  /\ Run(c)

NextCalls ==
  \/ \E k \in CallKeys : Press(k)
  \/ Click(PlayButton)
  \/ \E c \in BagToSet(inflight) : RunOnce(c)

SpecCalls == InitCalls /\ [][NextCalls]_vars

\* The status line: the skip keys, the results of their commands, the first
\* refresh and the status-clear timers, of which MaxTimers can be pending
\* at once.  The timers all run for ClearStatusMs, so the one that expires is
\* the one that was started first.
FitsTimers(bag) ==
  /\ CountOps(bag, {"poll"}) <= MaxPolls
  /\ CountOps(bag, {"clearStatus"}) <= MaxTimers
  /\ CountOps(bag, {"next", "prev"}) <= MaxCmds

Pass(msg, done) ==
  /\ Loop(msg, done, NoRun)
  /\ FitsTimers(inflight')

SkipKey(k) == Pass(Key(k), EmptyBag)

Finish(c) ==
  /\ BagIn(c, inflight)
  /\ \E msg \in Msgs(c) : Pass(msg, SetToBag({c}))

Expire == Finish(clearStatusCmd)

NextStatus ==
  \/ \E k \in {"n", "b"} : SkipKey(k)
  \/ \E c \in {pollCmd, Cmd("next", ""), Cmd("prev", "")} : Finish(c)
  \/ Expire

SpecStatus == Init /\ [][NextStatus]_vars

\* One burst: the loop's own events, one control action (recorded with the
\* command it emits), and after it no user action but up to MaxTicks ticks,
\* each recorded with the interval of the tick it schedules.
Act(k) ==
  /\ ran = NoRun
  /\ Step(Key(k), EmptyBag, [NoRun EXCEPT !.cmd = keyMsg(m, k).cmd[1]])

CountedTick ==
  /\ ran # NoRun
  /\ Len(ran.calls) < MaxTicks
  /\ \E c \in {tickCmd, fastTickCmd} :
       /\ BagIn(c, inflight)
       /\ Step(<<"tickMsg", "">>, SetToBag({c}),
               [ran EXCEPT !.calls = Append(@, <<"Tick", tickMsg(m).cmd[2][2]>>)])

\* A command other than the tick completes; the record is kept.
Quiet(c) ==
  /\ BagIn(c, inflight)
  /\ c[1] \notin {"tick", "windowSize"}
  /\ \E msg \in Msgs(c) : Loop(msg, SetToBag({c}), ran) /\ Fits(inflight')

NextBurst ==
  \/ \E k \in TransportKeys : Act(k)
  \/ CountedTick
  \/ \E c \in BagToSet(inflight) : Quiet(c)

SpecBurst == Init /\ [][NextBurst]_vars

(***************************************************************************)
(* The startup program (main.go): the model that authenticates, selects a  *)
(* device and then hands over to the RootModel.  Its model is the record   *)
(* [client, status, launchAttempted].                                      *)
(***************************************************************************)
startAuthCmd     == Cmd("startAuth", "")
deviceSelectCmd  == Cmd("runDeviceAutoSelect", "")
launchSpotifyCmd == Cmd("launchSpotify", "")
proceedCmd       == Cmd("proceed", "")

initialModel == [client |-> FALSE, status |-> "Authenticating...", launchAttempted |-> FALSE]

\* The startup model is the program's model until NewRootModel replaces it.
InStartup(model) == "launchAttempted" \in DOMAIN model

startAuth(ok) ==
  IF ok THEN Done(<<<<"Authenticate", "">>>>, <<"clientMsg", TRUE>>)
  ELSE Done(<<<<"Authenticate", "">>>>, errMsg("authentication failed"))

\* The loop of runDeviceAutoSelect over devices[i..]: the index of the first
\* device that is not restricted and is a computer or a smartphone, or 0.
RECURSIVE FirstSelectable(_, _)
FirstSelectable(devices, i) ==
  IF i > Len(devices) THEN 0
  ELSE IF ~devices[i].Restricted /\ devices[i].Type \in {"Computer", "Smartphone"} THEN i
  ELSE FirstSelectable(devices, i + 1)

\* runDeviceAutoSelect; the error of TransferPlayback is dropped.
runDeviceAutoSelect(devicesOk, devices) ==
  LET list == <<<<"PlayerDevices", "">>>> IN
  IF ~devicesOk THEN Done(list, errMsg(ApiError))
  ELSE IF Len(devices) = 0 THEN Done(list, <<"launchingSpotifyMsg", "">>)
  ELSE LET valid == FirstSelectable(devices, 1) IN
    Done(IF valid # 0 THEN Append(list, <<"TransferPlayback", devices[valid].ID>>) ELSE list,
         <<"clientMsg", TRUE>>)

\* launchSpotifyCmd: a nil message after a launch that did not fail.
launchSpotify(ok) ==
  IF ok THEN Done(<<<<"LaunchSpotify", "">>>>, <<"nil", "">>)
  ELSE Done(<<<<"LaunchSpotify", "">>>>, errMsg("spotify not found"))

\* func (m model) Update(msg tea.Msg) (tea.Model, tea.Cmd)
mainUpdate(model, msg) ==
  LET kind == msg[1]
      body == msg[2]
  IN  CASE kind = "KeyMsg" ->
             IF body \in {"ctrl+c", "q"} THEN Ret(model, <<quitCmd>>) ELSE Ret(model, <<>>)
        [] kind = "clientMsg" ->
             IF ~model.client
             THEN Ret([model EXCEPT !.client = body,
                                    !.status = "Authenticated! Detecting devices..."],
                      <<deviceSelectCmd>>)
             ELSE NewRootModel(body)
        [] kind = "launchingSpotifyMsg" ->
             IF ~model.launchAttempted
             THEN Ret([model EXCEPT !.launchAttempted = TRUE,
                                    !.status = "No Spotify devices found. Launching Spotify..."],
                      <<launchSpotifyCmd>>)
             ELSE Ret([model EXCEPT !.status = "No devices found. Please open Spotify manually."],
                      <<proceedCmd>>)
        [] kind = "nil" ->
             IF model.client
             THEN Ret([model EXCEPT !.status = "Spotify launched! Detecting devices..."],
                      <<deviceSelectCmd>>)
             ELSE Ret(model, <<>>)
        [] kind = "errMsg" -> Ret([model EXCEPT !.status = "Error: " \o body], <<>>)
        [] OTHER -> Ret(model, <<>>)

\* The runs of a startup command, as <<replies, Done(calls, msg)>>.
StartRuns(c) ==
  CASE c = startAuthCmd -> {In(<<ok>>, startAuth(ok)) : ok \in BOOLEAN}
    [] c = deviceSelectCmd ->
         {In(<<ok, ds>>, runDeviceAutoSelect(ok, ds)) : ok \in BOOLEAN, ds \in DeviceLists}
    [] c = launchSpotifyCmd -> {In(<<ok>>, launchSpotify(ok)) : ok \in BOOLEAN}
    [] c = proceedCmd -> {In(<<>>, Done(<<>>, <<"clientMsg", m.client>>))}

InitStartup ==
  /\ m = initialModel
  /\ cmds = <<startAuthCmd>>
  /\ inflight = SetToBag({startAuthCmd})
  /\ running = TRUE
  /\ ran = NoRun

\* One pass of the loop while the startup model is the program's model.
Boot(msg, done, record) ==
  LET r == mainUpdate(m, msg) IN
  /\ running
  /\ InStartup(m)
  /\ m' = r.m
  /\ cmds' = r.cmd
  /\ inflight' = (inflight (-) done) (+) BatchBag(SelectSeq(r.cmd, LAMBDA c : c # quitCmd))
  /\ running' = (quitCmd \notin {r.cmd[i] : i \in DOMAIN r.cmd})
  /\ ran' = record

\* A startup command completes and its message reaches Update.
StartRun(c) ==
  /\ BagIn(c, inflight)
  /\ \E r \in StartRuns(c) :
       Boot(r[2].msg, SetToBag({c}),
            [cmd |-> c, replies |-> r[1], calls |-> r[2].calls, msg |-> r[2].msg])

\* The nil message of launchSpotifyCmd is not passed to Update: whether the
\* runtime delivers a nil message is the library's choice (StartRun is the
\* delivery).
NilDropped ==
  /\ running
  /\ BagIn(launchSpotifyCmd, inflight)
  /\ inflight' = inflight (-) SetToBag({launchSpotifyCmd})
  /\ ran' = [cmd |-> launchSpotifyCmd, replies |-> <<TRUE>>,
             calls |-> launchSpotify(TRUE).calls, msg |-> <<"", "">>]
  /\ UNCHANGED <<m, cmds, running>>

StartKey(k) == Boot(Key(k), EmptyBag, NoRun)

\* The program from its start: the startup, then the playback UI before its
\* first tick, under the keys of the modes.
NextStartup ==
  \/ \E c \in {startAuthCmd, deviceSelectCmd, launchSpotifyCmd, proceedCmd} : StartRun(c)
  \/ NilDropped
  \/ \E k \in {"q", "ctrl+c"} : StartKey(k)
  \/ Refresh
  \/ StatusClear
  \/ ResizeDone
  \/ ~InStartup(m) /\ Result
  \/ ~InStartup(m) /\ \E k \in ModeKeys : KeyPress(k)

SpecStartup == InitStartup /\ [][NextStartup]_vars

(***************************************************************************)
(* Properties.                                                             *)
(***************************************************************************)
\* Minimum and maximum, for the statements below.
Min(a, b) == IF a < b THEN a ELSE b
Max(a, b) == IF a > b THEN a ELSE b

\* The steps the properties speak of.
UserAction  == \E k \in TransportKeys : KeyPress(k)
VolumeUp    == \E k \in {"+", "="} : KeyPress(k)
VolumeDown  == \E k \in {"-", "_"} : KeyPress(k)

\* C1: a tick never raises burstTicksRemaining: a tick at a value above 0
\* lowers it by exactly 1, a tick at 0 leaves it at 0, the value is never
\* negative, and a step that raises it is a user control action and sets it
\* to exactly 10.
C1_BurstCountsDown ==
  [][ /\ m'.burstTicksRemaining >= 0
      /\ Tick => m'.burstTicksRemaining =
                   IF m.burstTicksRemaining > 0 THEN m.burstTicksRemaining - 1 ELSE 0
      /\ m'.burstTicksRemaining > m.burstTicksRemaining =>
           m'.burstTicksRemaining = 10 /\ UserAction ]_vars

\* A fast tick has just taken burstTicksRemaining from 1 to 0.
C1_BurstRanOut ==
  m.burstTicksRemaining = 0 /\ cmds = <<pollCmd, fastTickCmd>>

\* C2: in every reachable state 0 <= progressMs <= durationMs.
C2_ProgressWithinDuration ==
  0 <= m.progressMs /\ m.progressMs <= m.durationMs

\* C3: a volume-up action leaves the model's volume at
\* min(old + 10, 100), a volume-down action at max(old - 10, 0).
C3_VolumeSetByKey ==
  [][ /\ VolumeUp => m'.volume = Min(m.volume + 10, 100)
      /\ VolumeDown => m'.volume = Max(m.volume - 10, 0) ]_vars

\* C3, amended: a volume-up action emits exactly one set-volume request, carrying
\* min(old + 10, 100), and a volume-down action one carrying max(old - 10, 0);
\* the action leaves the model's volume as it was.
C3_VolumeRequested ==
  [][ /\ VolumeUp => /\ cmds' = <<Cmd("setVolume", Min(m.volume + 10, 100))>>
                     /\ m'.volume = m.volume
      /\ VolumeDown => /\ cmds' = <<Cmd("setVolume", Max(m.volume - 10, 0))>>
                       /\ m'.volume = m.volume ]_vars

\* Volume up at 95: the request carries 100, not 105.
C3_UpAt95 ==
  m.volume = 95 /\ cmds = <<Cmd("setVolume", 100)>>

\* C4: every seek request the reducer emits carries a position in
\* [0, durationMs].
C4_SeekWithinTrack ==
  \A i \in DOMAIN cmds :
    cmds[i][1] = "seek" => 0 <= cmds[i][2] /\ cmds[i][2] <= m.durationMs

\* The column where the centred controls string starts, and the offsets one
\* cell outside a button (the buttons are at 1-12, 15-19, 22-26, 29-33, 36-40).
ControlsStart(width) == GoDiv((width - 2) - 43, 2)
BesideButtons == {0, 13, 14, 20, 21, 27, 28, 34, 35, 41}

\* C5: at every terminal width, a release on the control row at offset
\* 29..33 from the start of the centred controls string emits exactly the
\* next-track command, and a release on the control row one cell outside
\* every button emits no command and changes no state.
C5_NextButtonBounds ==
  [][ \A offset \in (29..33) \cup BesideButtons :
        LET x == ControlsStart(m.width) + offset IN
        (x \in 0..MaxX /\ Pointer(Mouse("left", "release", x, ControlRow))) =>
          /\ offset \in 29..33 => cmds' = <<Cmd("next", "")>>
          /\ offset \in BesideButtons =>
               cmds' = <<>> /\ m' = m /\ inflight' = inflight ]_vars

\* The next-track command has been emitted in a terminal 90 columns wide.
C5_NextClicked ==
  m.width = 90 /\ cmds = <<Cmd("next", "")>>

\* C6: a step that enters the search, by the / or s key or by a release on
\* the search button, ends with an empty query, no results and cursor 0.
C6_SearchStartsEmpty ==
  [][ (\/ ~m.isSearching /\ m'.isSearching
       \/ m.width = 90 /\ Pointer(SearchButton)) =>
        /\ m'.isSearching
        /\ m'.searchInput = ""
        /\ m'.searchResults = <<>>
        /\ m'.searchCursor = 0 ]_vars

\* The search has just been entered after an earlier search ended with the
\* choice of a track.
C6_EnteredAgain ==
  /\ m.isSearching
  /\ cmds = <<blinkCmd>>
  /\ m.status = "Playing selected track"

\* C7: in every reachable state outside the search the stored results are
\* empty and the cursor is 0.
C7_NoResultsOutsideSearch ==
  ~m.isSearching => m.searchResults = <<>> /\ m.searchCursor = 0

\* C8: after the results event of a search whose remote call returned
\* n >= 1 tracks, the stored results are the first min(n, 10) of them in the
\* remote order and the cursor is 0; the stored results never exceed 10.
C8_FirstTenKept ==
  /\ Len(m.searchResults) <= 10
  /\ (ran.cmd[1] = "search" /\ Len(ran.replies) = 3 /\ Len(ran.replies[3]) >= 1) =>
       LET tracks == ran.replies[3] IN
       /\ m.searchResults = [i \in 1..Min(Len(tracks), 10) |-> tracks[i]]
       /\ m.searchCursor = 0

\* A search has returned more than ten tracks and ten are stored.
C8_Truncated ==
  /\ ran.cmd[1] = "search"
  /\ Len(ran.replies) = 3
  /\ Len(ran.replies[3]) > 10
  /\ Len(m.searchResults) = 10

\* The run of a resume command against devices none of which is active and
\* at least one of which is valid, in which no remote call fails.
IsValid(d) == ~d.Restricted /\ d.Type \in {"Computer", "Smartphone", "Speaker"}

ResumedInactive ==
  /\ ran.cmd = Cmd("resume", "")
  /\ LET devices == ran.replies[2] IN
     /\ \A i \in DOMAIN devices : ~devices[i].Active
     /\ \E i \in DOMAIN devices : IsValid(devices[i])
  /\ ran.replies[1] /\ ran.replies[3] /\ ran.replies[4] # "err" /\ ran.replies[6]

FirstValidID ==
  LET devices == ran.replies[2]
      i == CHOOSE i \in DOMAIN devices :
             IsValid(devices[i]) /\ \A j \in 1..(i - 1) : ~IsValid(devices[j])
  IN  devices[i].ID

\* C9: such a run transfers playback to the valid device and then issues
\* play, and it yields the status "Resumed playback."; burstTicksRemaining
\* is 10 after the action that started it.
C9_TransferThenPlay ==
  ResumedInactive =>
    /\ \E i, j \in DOMAIN ran.calls :
         /\ i < j
         /\ ran.calls[i] = <<"TransferPlayback", FirstValidID>>
         /\ ran.calls[j] = <<"Play", "">>
    /\ ran.msg = <<"statusMsg", "Resumed playback.">>
    /\ m.burstTicksRemaining = 10

\* The playback fields, and those a tick leaves alone.
Playback(x) ==
  <<x.trackName, x.artistName, x.progressMs, x.durationMs, x.isPlaying,
    x.currentTrackID, x.trackIsLiked, x.volume>>

TrackFields(x) ==
  <<x.trackName, x.artistName, x.durationMs, x.isPlaying,
    x.currentTrackID, x.trackIsLiked, x.volume>>

\* A refresh that fails or finds no session, and one that finds a track.
WaitingRefresh ==
  /\ BagIn(pollCmd, inflight)
  /\ \E k \in StateKinds \ {"track"} :
       Step(pollStateCmd(k, Paused).msg, SetToBag({pollCmd}), NoRun)

TrackRefresh ==
  /\ BagIn(pollCmd, inflight)
  /\ \E s \in PlayerStates :
       Step(pollStateCmd("track", s).msg, SetToBag({pollCmd}), NoRun)

RefreshKeepsFields ==
  \/ /\ m'.status = "Waiting for playback..."
     /\ ~HasPrefix(m'.status, "Error:")
     /\ Playback(m') = Playback(m)
  \/ ~WaitingRefresh

\* C10: a refresh that fails or finds no session sets the status
\* "Waiting for playback...", never an error, and leaves every playback field
\* as it was; right after it, no step but a track-bearing refresh changes a
\* playback field.
C10_FieldsKeptUntilTrack ==
  [][ /\ RefreshKeepsFields
      /\ (m.status = "Waiting for playback..." /\ cmds = <<clearStatusCmd>>
            /\ ~TrackRefresh) =>
           Playback(m') = Playback(m) ]_vars

\* C10, amended: a refresh that fails or finds no session sets the status
\* "Waiting for playback...", never an error, and leaves every playback field
\* as it was; no step but a track-bearing refresh changes the track name, artist,
\* duration, playing flag, track id, liked flag or volume, and the progress
\* changes otherwise only by the advance of a normal tick, by 1000 ms and not
\* past the duration.
C10_FieldsKeptButProgress ==
  [][ /\ RefreshKeepsFields
      /\ \/ /\ TrackFields(m') = TrackFields(m)
            /\ m'.progressMs # m.progressMs =>
                 /\ Tick
                 /\ m.burstTicksRemaining = 0
                 /\ m'.progressMs = Min(m.progressMs + 1000, m.durationMs)
         \/ TrackRefresh ]_vars

\* A refresh has failed while a track was on display.
C10_WaitingWithTrack ==
  /\ m.status = "Waiting for playback..."
  /\ cmds = <<clearStatusCmd>>
  /\ m.trackName # ""

\* C11: the help and the search are never both active.
C11_ModesExclusive ==
  ~(m.showHelp /\ m.isSearching)

\* C16: a ctrl+c key press makes Update return the quit request in every
\* mode, and a q key press does so outside the search.
C16_QuitInEveryMode ==
  [][ /\ KeyPress("ctrl+c") => cmds' = <<quitCmd>>
      /\ (~m.isSearching /\ KeyPress("q")) => cmds' = <<quitCmd>> ]_vars

\* The commands of the user's control actions.
ControlOps == {"pause", "resume", "next", "prev", "toggleLike", "setVolume", "seek"}

Emits(batch, ops) == \E i \in DOMAIN batch : batch[i][1] \in ops

\* C12: a key press or a pointer event on which Update takes a control
\* action (it returns a pause, resume, next, previous, like, volume or seek
\* command) leaves burstTicksRemaining at 10, whatever it was before.
C12_ControlSetsBurst ==
  [][ (ran'.msg[1] \in {"KeyMsg", "MouseMsg"} /\ Emits(cmds', ControlOps)) =>
        m'.burstTicksRemaining = BurstTicks ]_vars

\* A click on the progress bar has requested a seek.
C12_SeekClicked ==
  /\ ran.msg[1] = "MouseMsg"
  /\ ran.msg[2].Y = ProgressRow
  /\ Emits(cmds, {"seek"})
  /\ m.burstTicksRemaining = BurstTicks

\* The commands that make one call, and the kinds of result.
OneCallOps == {"pause", "next", "prev", "toggleLike", "setVolume", "playTrack"}

Succeeded(replies) == \A i \in DOMAIN replies : replies[i] # FALSE

\* C13: every command run for a user action has made exactly one remote
\* call and has delivered a status text, or, when the call failed, an error.
C13_OneCallOneResult ==
  ran.cmd[1] \in OneCallOps \cup {"resume", "seek"} =>
    /\ Len(ran.calls) = 1
    /\ ran.msg[1] = IF ran.replies[1] THEN "statusMsg" ELSE "errMsg"

\* C13, amended: pause, next, previous, like-toggle, set-volume and
\* play-selection make exactly one call and deliver a status text when it
\* succeeds and an error when it fails.  Resume lists the devices first and
\* makes one to four calls (PlayerDevices, TransferPlayback, PlayerState,
\* Play), delivering a status text or an error.  Seek makes the Seek call and
\* delivers an error when it fails; when it succeeds it makes the calls of a
\* state refresh (PlayerState, UserHasTracks) and delivers the refresh's
\* result: a player state, or the "Waiting for playback..." status.
C13_CallsPerCommand ==
  LET op == ran.cmd[1]
      n  == Len(ran.calls)
  IN  /\ op \in OneCallOps =>
           /\ n = 1
           /\ ran.msg[1] = IF ran.replies[1] THEN "statusMsg" ELSE "errMsg"
      /\ op = "resume" =>
           /\ n \in 1..4
           /\ ran.calls[1][1] = "PlayerDevices"
           /\ \A i \in 2..n : ran.calls[i][1] \in {"TransferPlayback", "PlayerState", "Play"}
           /\ ran.msg[1] \in {"statusMsg", "errMsg"}
           /\ ran.msg[1] = "statusMsg" => ran.msg[2] = "Resumed playback."
      /\ op = "seek" =>
           /\ ran.calls[1] = <<"Seek", FmtInt(ran.cmd[2])>>
           /\ IF ran.replies[1]
              THEN /\ n \in 2..3
                   /\ ran.calls[2][1] = "PlayerState"
                   /\ n = 3 => ran.calls[3][1] = "UserHasTracks"
                   /\ ran.msg[1] \in {"playerStateMsg", "statusMsg"}
                   /\ ran.msg[1] = "statusMsg" => ran.msg[2] = "Waiting for playback..."
              ELSE n = 1 /\ ran.msg[1] = "errMsg"

\* A seek has succeeded and the refresh after it has found a track.
C13_SeekThenRefresh ==
  ran.cmd[1] = "seek" /\ Len(ran.calls) = 3 /\ ran.msg[1] = "playerStateMsg"

\* C14: a status-clear timer that expires while a later one is pending was
\* started for an earlier message, and leaves the message displayed as it is.
C14_NewerMessageStays ==
  [][ (CountOps(inflight, {"clearStatus"}) >= 2 /\ Expire) =>
        m'.status = m.status ]_vars

\* The operations of the commands Update returns.
AllOps ==
  ControlOps \cup {"poll", "tick", "clearStatus", "blink", "windowSize", "search",
                   "playTrack", "quit"}

\* C15: on every event, in every model, Update returns a model and a batch of
\* commands; on an event it has no case for it returns the model it was
\* given and no command.
C15_UpdateTotal ==
  [][ /\ DOMAIN m' = DOMAIN m
      /\ \A i \in DOMAIN cmds' : cmds'[i][1] \in AllOps
      /\ ran'.msg[1] = "blinkMsg" => m' = m /\ cmds' = <<>> ]_vars

\* An event without a case has arrived with search results open.
C15_BlinkInSearch ==
  ran.msg[1] = "blinkMsg" /\ m.isSearching /\ m.searchResults # <<>>

\* The commands of a batch with one of the operations ops, in order.
Of(batch, ops) == SelectSeq(batch, LAMBDA c : c[1] \in ops)

\* C18: a tick schedules exactly one follow-up tick, after 100 ms if
\* burstTicksRemaining was above 0 when the tick was handled and after
\* 1000 ms if it was 0; no event schedules a tick after any other interval.
C18_OneFollowUpTick ==
  [][ /\ ran'.msg[1] = "tickMsg" =>
           Of(cmds', {"tick"}) =
             <<IF m.burstTicksRemaining > 0 THEN Cmd("tick", 100) ELSE Cmd("tick", 1000)>>
      /\ \A i \in DOMAIN cmds' : cmds'[i][1] = "tick" => cmds'[i][2] \in {100, 1000} ]_vars

\* The last tick of a burst: burstTicksRemaining was 1, the next tick is fast.
C18_LastFastTick ==
  /\ ran.msg[1] = "tickMsg"
  /\ m.burstTicksRemaining = 0
  /\ Of(cmds, {"tick"}) = <<fastTickCmd>>

\* C19: a tick at burstTicksRemaining = 0 leaves progressMs at
\* min(progressMs + 1000, durationMs); a tick at burstTicksRemaining > 0
\* leaves progressMs as it was.
C19_TickAdvances ==
  [][ ran'.msg[1] = "tickMsg" =>
        m'.progressMs = IF m.burstTicksRemaining = 0
                        THEN Min(m.progressMs + 1000, m.durationMs)
                        ELSE m.progressMs ]_vars

\* C19, amended: a tick at burstTicksRemaining = 0 in a model that is
\* playing and has received a player state leaves progressMs at
\* min(progressMs + 1000, durationMs); every other tick (in burst mode,
\* paused, or before the first player state) leaves progressMs as it was.
C19_TickAdvancesWhilePlaying ==
  [][ ran'.msg[1] = "tickMsg" =>
        m'.progressMs = IF /\ m.burstTicksRemaining = 0
                           /\ m.isPlaying
                           /\ m.hasInitialState
                        THEN Min(m.progressMs + 1000, m.durationMs)
                        ELSE m.progressMs ]_vars

\* A normal tick has advanced a playing track to its end.
C19_AdvancedToEnd ==
  /\ ran.msg[1] = "tickMsg"
  /\ cmds = <<pollCmd, tickCmd>>
  /\ m.isPlaying
  /\ m.durationMs = Jingle.DurationMs
  /\ m.progressMs = m.durationMs

\* C20: a tick, in burst mode or not, with the help or the search open or
\* not, returns exactly two commands: one refresh request and the next tick.
C20_TickRefreshes ==
  [][ ran'.msg[1] = "tickMsg" =>
        /\ Len(cmds') = 2
        /\ Of(cmds', {"poll"}) = <<pollCmd>>
        /\ Len(Of(cmds', {"tick"})) = 1 ]_vars

\* A tick in burst mode has arrived with the help and the search open.
C20_TickInSearch ==
  /\ ran.msg[1] = "tickMsg"
  /\ m.isSearching
  /\ m.showHelp
  /\ cmds = <<pollCmd, fastTickCmd>>

\* The step emits the launch, and the run recorded is a device listing that
\* returned no device.
Launched == CopiesIn(launchSpotifyCmd, inflight') > CopiesIn(launchSpotifyCmd, inflight)

ZeroListing(r) == r.cmd = deviceSelectCmd /\ r.replies = <<TRUE, <<>>>>

\* The launch is emitted at most once, and only on a listing of no device.
LaunchOnce ==
  /\ Launched => /\ InStartup(m) /\ ~m.launchAttempted /\ m'.launchAttempted
                 /\ ZeroListing(ran')
  /\ (InStartup(m) /\ InStartup(m') /\ m.launchAttempted) => m'.launchAttempted
  /\ ~InStartup(m) => ~InStartup(m')

\* A second listing of no device sets the status and proceeds.
SecondListingProceeds ==
  (InStartup(m) /\ m.launchAttempted /\ ZeroListing(ran')) =>
     /\ ~Launched
     /\ cmds' = <<proceedCmd>>
     /\ HasPrefix(m'.status, "No devices found")

\* C17: during startup the launch is emitted at most once, and only after a
\* device listing that returned no device; a second such listing does not
\* launch again but proceeds to the playback UI, which opens with a
\* "No devices found" status.
C17_LaunchOnceThenProceed ==
  [][ /\ LaunchOnce
      /\ SecondListingProceeds
      /\ ran'.cmd = proceedCmd =>
           ~InStartup(m') /\ HasPrefix(m'.status, "No devices found") ]_vars

\* C21: after a control action and no further user action, the ticks
\* schedule their successor at the fast interval for exactly the next 10
\* ticks and at the normal interval from then on, and burstTicksRemaining
\* counts the fast ticks left, reaching 0 with the tenth.
C21_TenFastTicks ==
  ran # NoRun =>
    /\ \A i \in DOMAIN ran.calls :
         ran.calls[i] = <<"Tick", IF i <= 10 THEN 100 ELSE 1000>>
    /\ m.burstTicksRemaining = Max(10 - Len(ran.calls), 0)

\* The twelfth tick after a control action: the polling is back at the
\* normal rate.
C21_BackToNormal ==
  /\ Len(ran.calls) = 12
  /\ m.burstTicksRemaining = 0
  /\ cmds = <<pollCmd, tickCmd>>

\* The calls of the run recorded, by name.
Called(name) == \E i \in DOMAIN ran.calls : ran.calls[i][1] = name

\* A play/pause action has emitted its command, which has not run yet.
Toggled == ran = NoRun /\ Emits(cmds, {"pause", "resume"})

FromLocalFlag ==
  Toggled => cmds = <<IF m.isPlaying THEN Cmd("pause", "") ELSE Cmd("resume", "")>>

CallsNamed(name) == SelectSeq(ran.calls, LAMBDA c : c[1] = name)

\* C23: on every resume whose device listing succeeds, only the devices
\* that are not restricted and are a computer, a smartphone or a speaker
\* count.  If one of them is active, no transfer is issued; otherwise, if
\* there is one, exactly one transfer is issued, to the first of them in
\* list order; if there is none, the resume delivers a no-device error
\* ("no controllable devices available", or "no devices found; open
\* Spotify on a device" for an empty list) and issues no transfer and no
\* play.
C23_DeviceCheck ==
  (ran.cmd[1] = "resume" /\ ran.replies[1]) =>
    LET devices == ran.replies[2]
        valid   == {i \in DOMAIN devices : IsValid(devices[i])}
    IN  IF \E i \in valid : devices[i].Active
        THEN CallsNamed("TransferPlayback") = <<>>
        ELSE IF valid # {}
        THEN CallsNamed("TransferPlayback") = <<<<"TransferPlayback", FirstValidID>>>>
        ELSE /\ ran.msg = errMsg(IF devices = <<>>
                                 THEN "no devices found; open Spotify on a device"
                                 ELSE "no controllable devices available")
             /\ CallsNamed("TransferPlayback") = <<>>
             /\ CallsNamed("Play") = <<>>

\* A resume has listed a TV, a speaker and a computer, none active, and has
\* transferred playback to the speaker.
C23_TransferredToSpeaker ==
  /\ ran.cmd[1] = "resume"
  /\ Len(ran.replies[2]) = 3
  /\ CallsNamed("TransferPlayback") = <<<<"TransferPlayback", "d2">>>>

\* The pointer event delivered, and the kinds of pointer event.
IsMouse(r) == r.msg[1] = "MouseMsg"

IsWheel(ev) == ev.Button \in {"wheelUp", "wheelDown"}

OnActiveRow(ev) == ev.Action = "release" /\ ev.Y \in {ControlRow, ProgressRow}

\* C24: a pointer event that is not a wheel event and not a release on the
\* control row or on the progress-bar row leaves the model as it is and
\* emits no command.
C24_OtherPointerEventsIgnored ==
  [][ (IsMouse(ran') /\ ~IsWheel(ran'.msg[2]) /\ ~OnActiveRow(ran'.msg[2])) =>
        m' = m /\ cmds' = <<>> ]_vars

\* A press on the play button of a terminal 90 columns wide.
C24_PressOnPlayButton ==
  /\ IsMouse(ran)
  /\ ran.msg[2] = Mouse("left", "press", 39, ControlRow)
  /\ m.width = 90

\* C25: a wheel event with the search open and results stored moves the
\* cursor by one, up unless it is 0 and down unless it is on the last
\* result, and changes nothing else; in every other state a wheel event
\* changes nothing; it never emits a command.
C25_WheelMovesCursor ==
  [][ (IsMouse(ran') /\ IsWheel(ran'.msg[2])) =>
        LET n  == Len(m.searchResults)
            up == ran'.msg[2].Button = "wheelUp"
        IN  /\ cmds' = <<>>
            /\ IF m.isSearching /\ n > 0
               THEN m' = [m EXCEPT !.searchCursor =
                            IF up THEN (IF @ = 0 THEN 0 ELSE @ - 1)
                                  ELSE (IF @ = n - 1 THEN @ ELSE @ + 1)]
               ELSE m' = m ]_vars

\* A wheel-down has arrived with the cursor on the last of two results.
C25_WheelDownAtEnd ==
  /\ IsMouse(ran)
  /\ ran.msg[2].Button = "wheelDown"
  /\ m.isSearching
  /\ Len(m.searchResults) = 2
  /\ m.searchCursor = 1

\* The release on the progress-bar row that a step delivers while a track
\* with a duration is loaded.
ProgressRelease(r) ==
  /\ IsMouse(r)
  /\ ~IsWheel(r.msg[2])
  /\ r.msg[2].Action = "release"
  /\ r.msg[2].Y = ProgressRow

\* C26 as stated: the bar is max(width - 19, 10) columns wide, and a release
\* at X inside [barStart, barStart + barWidth) emits one seek to
\* floor((X - barStart) * durationMs / barWidth), a release outside nothing.
C26_SeekIsFloorOfFraction ==
  [][ (ProgressRelease(ran') /\ m.durationMs > 0) =>
        LET bw  == Max(m.width - 19, 10)
            rel == ran'.msg[2].X - barStartX(m)
        IN  IF rel >= 0 /\ rel < bw
            THEN cmds' = <<Cmd("seek", (rel * m.durationMs) \div bw)>>
            ELSE cmds' = <<>> ]_vars

\* C26, amended: the bar is max(w - 19, 10) columns wide, where w is the
\* width, or 80 when the width is not positive; a release inside the bar
\* emits one seek to floor((X - barStart) * durationMs / barWidth) or to one
\* millisecond less, a position in [0, durationMs); a release outside the
\* bar emits nothing and changes nothing; the bar is hit-tested as wide as it
\* is drawn.
C26_SeekFromClick ==
  [][ (ProgressRelease(ran') /\ m.durationMs > 0) =>
        LET bw    == Max((IF m.width <= 0 THEN 80 ELSE m.width) - 19, 10)
            rel   == ran'.msg[2].X - barStartX(m)
            exact == (rel * m.durationMs) \div bw
        IN  /\ barWidth(m.width) = renderBarWidth(m.width)
            /\ IF rel >= 0 /\ rel < bw
               THEN \E p \in {exact - 1, exact} :
                      /\ 0 <= p /\ p < m.durationMs
                      /\ cmds' = <<Cmd("seek", p)>>
               ELSE cmds' = <<>> /\ m' = m ]_vars

\* A release seven tenths along a bar of ten columns, on a track 180000 ms
\* long, has emitted a seek to 125999.
C26_SeekOneBelowFloor ==
  /\ ProgressRelease(ran)
  /\ m.width = 24
  /\ m.durationMs = 180000
  /\ cmds = <<Cmd("seek", 125999)>>

\* C27: in the search, enter with no stored result and a query emits one
\* search request for that query and changes nothing; enter with a stored
\* result emits one play request for the result at the cursor, leaves the
\* search and clears the results and the cursor; enter with no stored result
\* and no query emits nothing and changes nothing.
C27_ConfirmInSearch ==
  [][ (ran'.msg = Key("enter") /\ m.isSearching) =>
        IF m.searchResults # <<>>
        THEN /\ cmds' = <<Cmd("playTrack", m.searchResults[m.searchCursor + 1].URI)>>
             /\ m' = [m EXCEPT !.isSearching = FALSE, !.searchResults = <<>>,
                               !.searchCursor = 0]
        ELSE IF m.searchInput # ""
        THEN cmds' = <<Cmd("search", m.searchInput)>> /\ m' = m
        ELSE cmds' = <<>> /\ m' = m ]_vars

\* Enter has played the second of two results and closed the search.
C27_PlayedSecondResult ==
  /\ ran.msg = Key("enter")
  /\ cmds = <<Cmd("playTrack", SearchList(2, TRUE)[2].URI)>>
  /\ ~m.isSearching
  /\ m.searchResults = <<>>

\* The cursor moves: the up and down keys of the search, and the wheel.
MovesUp(msg) ==
  \/ msg = <<"KeyMsg", "up">>
  \/ msg[1] = "MouseMsg" /\ msg[2].Button = "wheelUp"

MovesDown(msg) ==
  \/ msg = <<"KeyMsg", "down">>
  \/ msg[1] = "MouseMsg" /\ msg[2].Button = "wheelDown"

CursorInRange(model) ==
  /\ 0 <= model.searchCursor
  /\ IF model.searchResults = <<>> THEN model.searchCursor = 0
     ELSE model.searchCursor < Len(model.searchResults)

\* C28: the search cursor is always an index into the stored results, or 0
\* when there are none; in the search, an up at cursor 0 and a down on the
\* last result leave the cursor where it is.
C28_CursorInRange ==
  /\ [] CursorInRange(m)
  /\ [][ /\ (m.isSearching /\ MovesUp(ran'.msg) /\ m.searchCursor = 0) =>
              m'.searchCursor = 0
         /\ (m.isSearching /\ MovesDown(ran'.msg)
               /\ m.searchCursor = Len(m.searchResults) - 1) =>
              m'.searchCursor = m.searchCursor ]_vars

\* A down has arrived with the cursor on the last of ten results, and the
\* cursor is still there.
C28_DownOnLastResult ==
  /\ MovesDown(ran.msg)
  /\ m.isSearching
  /\ Len(m.searchResults) = MaxResults
  /\ m.searchCursor = MaxResults - 1
  /\ cmds = <<>>

\* The run of a search that a step records: failed, or without a result.
SearchFailed(r) == r.cmd[1] = "search" /\ r.replies = <<FALSE>>

SearchEmpty(r) ==
  /\ r.cmd[1] = "search"
  /\ r.replies \in {<<TRUE, FALSE>>, <<TRUE, TRUE, <<>>>>}

ShownAsError(status) == HasPrefix(status, "Error:")

\* C29 as stated: a search that fails and a search that finds nothing each
\* deliver a status that is not shown as an error, and the search stays open
\* with no result stored.
C29_FailedSearchIsPlainStatus ==
  [][ ((SearchFailed(ran') \/ SearchEmpty(ran'))
         /\ m.isSearching /\ m.searchResults = <<>>) =>
        /\ m'.status # ""
        /\ ~ShownAsError(m'.status)
        /\ m'.isSearching
        /\ m'.searchResults = <<>> ]_vars

\* C29, amended: a search that finds nothing delivers the status "No results
\* found", which is not shown as an error; a search that fails delivers its
\* error, and the status is the error text behind the error prefix; either
\* schedules one clearing of the status and changes nothing else, so that an
\* open search stays open and an empty result list stays empty.
C29_SearchOutcomeStatus ==
  [][ (SearchFailed(ran') \/ SearchEmpty(ran')) =>
        /\ SearchEmpty(ran') =>
             m'.status = "No results found" /\ ~ShownAsError(m'.status)
        /\ SearchFailed(ran') =>
             m'.status = "Error: " \o ApiError /\ ShownAsError(m'.status)
        /\ m' = [m EXCEPT !.status = m'.status]
        /\ cmds' = <<clearStatusCmd>> ]_vars

\* A search has failed with the search open and no result stored, and the
\* status shows the error.
C29_FailedSearchShown ==
  /\ SearchFailed(ran)
  /\ m.isSearching
  /\ m.searchResults = <<>>
  /\ m.status = "Error: remote call failed"

\* C30: an error event sets the status to the error text behind the error
\* prefix and changes no other field of the model; Update returns one
\* command, the clearing of the status, and not the quit request; the
\* clearing is then in flight, and its event, when it arrives, empties the
\* status.
C30_ErrorShownThenCleared ==
  [][ ran'.msg[1] = "errMsg" =>
        /\ m' = [m EXCEPT !.status = "Error: " \o ran'.msg[2]]
        /\ ShownAsError(m'.status)
        /\ cmds' = <<clearStatusCmd>>
        /\ running'
        /\ BagIn(clearStatusCmd, inflight')
        /\ Msgs(clearStatusCmd) = {<<"clearStatusMsg", "">>}
        /\ Update(m', <<"clearStatusMsg", "">>).m.status = "" ]_vars

\* An error has arrived with the search open on two results: the status
\* shows it and the search is as it was.
C30_ErrorInSearch ==
  /\ ran.msg = errMsg(ApiError)
  /\ m.status = "Error: remote call failed"
  /\ cmds = <<clearStatusCmd>>
  /\ m.isSearching
  /\ Len(m.searchResults) = 2
  /\ running

\* The eight playback fields of a model, and of a refresh result.
PlaybackFields(model) ==
  <<model.trackName, model.artistName, model.progressMs, model.durationMs,
    model.isPlaying, model.currentTrackID, model.trackIsLiked, model.volume>>

Payload(state) ==
  <<state.TrackName, state.ArtistName, state.ProgressMs, state.DurationMs,
    state.Playing, state.ID, state.Liked, state.Volume>>

C32_AnyKeyClosesHelp ==
  [][ (ran'.msg[1] = "KeyMsg" /\ m.showHelp) => ~m'.showHelp ]_vars

\* The like action: the l key outside the search (in the search it is a
\* character of the query), and a release on the like button.
LikeAction(model, msg) ==
  \/ msg = Key("l") /\ ~model.isSearching
  \/ /\ msg[1] = "MouseMsg"
     /\ ~IsWheel(msg[2])
     /\ msg[2].Action = "release"
     /\ msg[2].Y = ControlRow
     /\ relativeX(model, msg[2].X) \in 36..40

\* C33: a like action with a current track emits one command, which calls
\* RemoveTracksFromLibrary for that track if the local liked flag is set and
\* AddTracksToLibrary for it otherwise, and makes no other call; without a
\* current track it emits nothing and leaves the model, burstTicksRemaining
\* included, as it is.
C33_LikeToggle ==
  [][ LikeAction(m, ran'.msg) =>
        IF m.currentTrackID # ""
        THEN /\ Len(cmds') = 1
             /\ cmds'[1][1] = "toggleLike"
             /\ \A r \in Runs(cmds'[1]) :
                  r[2].calls = <<<<IF m.trackIsLiked THEN "RemoveTracksFromLibrary"
                                                     ELSE "AddTracksToLibrary",
                                   m.currentTrackID>>>>
        ELSE cmds' = <<>> /\ m' = m ]_vars

\* The like button has been released on a liked track.
C33_LikeButtonOnLikedTrack ==
  /\ ran.msg[1] = "MouseMsg"
  /\ cmds = <<Cmd("toggleLike", <<Paused.ID, TRUE>>)>>
  /\ m.trackIsLiked
  /\ m.burstTicksRemaining = BurstTicks

\* C34: from Init on, one tick timer is in flight, the normal one or the fast
\* one: a tick event replaces the timer that delivered it by one successor,
\* and no other event of the loop starts or removes a timer.
C34_OneTickOutstanding ==
  running => CountOps(inflight, {"tick"}) = 1

\* After a control key and a tick, the one timer in flight is the fast one.
C34_FastTimerAlone ==
  /\ m.burstTicksRemaining = BurstTicks - 1
  /\ BagIn(fastTickCmd, inflight)
  /\ ~BagIn(tickCmd, inflight)
  /\ CountOps(inflight, {"tick"}) = 1

\* C35: a key press or a pointer event leaves the eight playback fields as
\* they are; so the same control action, taken again before any other event,
\* emits the same request again.
C35_NoOptimisticUpdate ==
  [][ ran'.msg[1] \in {"KeyMsg", "MouseMsg"} =>
        /\ PlaybackFields(m') = PlaybackFields(m)
        /\ Emits(cmds', ControlOps) => Update(m', ran'.msg).cmd = cmds' ]_vars

\* Volume up has been pressed at volume 5: the volume is still 5, the
\* request is for 15, and a second press would request 15 again.
C35_VolumeUpRequestsSame ==
  /\ ran.msg = Key("+")
  /\ m.volume = Short.Volume
  /\ cmds = <<Cmd("setVolume", Short.Volume + VolumeStep)>>
  /\ Update(m, ran.msg).cmd = cmds

\* C36: a key press in the search emits no playback control command and
\* leaves burstTicksRemaining, the help flag and the playback fields as they
\* are; what it emits, if anything, is one search or one play-track request.
C36_SearchKeysOnlySearch ==
  [][ (ran'.msg[1] = "KeyMsg" /\ m.isSearching) =>
        /\ ~Emits(cmds', ControlOps)
        /\ m'.burstTicksRemaining = m.burstTicksRemaining
        /\ m'.showHelp = m.showHelp
        /\ PlaybackFields(m') = PlaybackFields(m)
        /\ cmds' = <<>> \/ (Len(cmds') = 1 /\ cmds'[1][1] \in {"search", "playTrack"})
     ]_vars

\* The play/pause key has been typed into the query.
C36_PlayKeyTyped ==
  /\ ran.msg = Key("p")
  /\ m.isSearching
  /\ m.searchInput = "ap"
  /\ cmds = <<>>

\* C37: a pointer release that arrives while the search is open or the help
\* is showing emits no playback control command, does not open the search
\* and leaves burstTicksRemaining as it is, wherever the pointer is.
C37_NoClicksBehindOverlay ==
  [][ (IsMouse(ran') /\ ran'.msg[2].Action = "release"
         /\ (m.isSearching \/ m.showHelp)) =>
        /\ ~Emits(cmds', ControlOps)
        /\ m'.isSearching = m.isSearching
        /\ m'.burstTicksRemaining = m.burstTicksRemaining ]_vars

\* C38: while the startup model holds a client and no device listing has
\* failed, the startup has not stalled: one of its commands is in flight, so
\* that the hand-over to the playback UI is still to come.
C38_StartupReachesUI ==
  (running /\ InStartup(m) /\ m.client /\ m.status # "Error: " \o ApiError) =>
    inflight # EmptyBag
====
